---- MODULE Spec2Model ----
(***************************************************************************)
(* Model of the conversation store of the VoiceInsight client              *)
(* (frontend/src/services/api.ts, class ConversationManager) together with *)
(* its persistence through localStorage.                                   *)
(*                                                                         *)
(* Modelling conventions                                                   *)
(*  - A string is a sequence of one-character strings, so that split(' '), *)
(*    slice and join(' ') are computed as the code computes them.          *)
(*  - A Date is its instant in milliseconds.  JSON.stringify turns it into *)
(*    its ISO text, modelled as <<day, hour, minute, second, millisecond>>.*)
(*  - generateId() (Date.now() in base 36 followed by random digits) is    *)
(*    modelled as a fresh number taken from the counter nextId.            *)
(*  - The wall clock is read by every `new Date()`; between two reads it   *)
(*    advances by zero or one millisecond and never runs backwards.        *)
(*  - sentiment_confidence is counted in tenths (8 is 0.8) and             *)
(*    averageSentiment is the exact fraction <<numerator, denominator>>    *)
(*    in lowest terms, also in tenths.                                     *)
(*  - An optional property that is undefined holds the Undefined value of  *)
(*    its type; JSON.stringify omits such a property and reading an        *)
(*    omitted property gives undefined again.                              *)
(***************************************************************************)
EXTENDS Integers, Sequences, FiniteSets, TLC

VARIABLES conversations, currentConversationId, storage, now, nextId,
          budget, lastCall, returned, metricsQueue, requests, timer, isProduction,
          quotaExceeded, isProcessing, isAITyping, pipeline, breathing, recorder

\* the store of conversations, its clock and the record of the last call
storeVars == <<conversations, currentConversationId, storage, now, nextId,
               budget, lastCall>>

\* the fields of CloudWatchService and the requests of its flushes in flight
metricVars == <<metricsQueue, requests, timer, isProduction>>

\* the state of ChatInterface and the position of its audio pipeline
chatVars == <<isProcessing, isAITyping, pipeline>>

\* the state of WellnessPanel's breathing exercise and of the recorder
panelVars == <<breathing, recorder>>

\* what the calls on the store leave alone
otherVars == <<returned, metricVars, quotaExceeded, chatVars, panelVars>>

vars == <<storeVars, otherVars>>

(***************************************************************************)
(* Bounds of the model                                                     *)
(***************************************************************************)
MaxCalls == 3

MaxLedgerCalls == 4

MaxTick == 1

(***************************************************************************)
(* Program constants                                                       *)
(***************************************************************************)
TitleWords == 6

StartTime == 86400000 - 1

Null == 0

Undefined == "undefined"

NoResult ==
  [present |-> FALSE, hasEmotions |-> FALSE, primary_emotion |-> "",
   sentiment |-> "", sentiment_confidence |-> 0]

NoSummary ==
  [present |-> FALSE, dominantEmotion |-> "", averageSentiment |-> <<0, 1>>,
   emotionDistribution |-> <<>>]

(***************************************************************************)
(* Generic helpers                                                         *)
(***************************************************************************)
Min(a, b) == IF a < b THEN a ELSE b

Abs(n) == IF n < 0 THEN -n ELSE n

RECURSIVE Gcd(_, _)
Gcd(a, b) == IF b = 0 THEN a ELSE Gcd(b, a % b)

RECURSIVE SumSeq(_)
SumSeq(s) == IF s = <<>> THEN 0 ELSE Head(s) + SumSeq(Tail(s))


(***************************************************************************)
(* Strings: String.prototype.split(' '), Array.prototype.slice and join    *)
(***************************************************************************)
FirstSpace(s) ==
  IF \E i \in 1..Len(s) : s[i] = " "
  THEN CHOOSE i \in 1..Len(s) : s[i] = " " /\ \A j \in 1..(i - 1) : s[j] # " "
  ELSE 0

RECURSIVE Split(_)
Split(s) ==
  IF FirstSpace(s) = 0
  THEN <<s>>
  ELSE <<SubSeq(s, 1, FirstSpace(s) - 1)>> \o Split(SubSeq(s, FirstSpace(s) + 1, Len(s)))

Slice(a, n) == SubSeq(a, 1, Min(Len(a), n))

RECURSIVE Join(_)
Join(a) ==
  IF a = <<>> THEN <<>>
  ELSE IF Len(a) = 1 THEN a[1]
  ELSE a[1] \o <<" ">> \o Join(Tail(a))

generateTitleFiveWords(content) ==
  Join(Slice(Split(content), TitleWords - 1))
    \o (IF Len(Split(content)) > TitleWords THEN <<".", ".", ".">> ELSE <<>>)

generateTitle(content) ==
  Join(Slice(Split(content), TitleWords))
    \o (IF Len(Split(content)) > TitleWords THEN <<".", ".", ".">> ELSE <<>>)

(***************************************************************************)
(* Dates: Date.prototype.toJSON (the ISO text) and new Date(isoText)       *)
(***************************************************************************)
toISOString(t) ==
  <<t \div 86400000, (t \div 3600000) % 24, (t \div 60000) % 60,
    (t \div 1000) % 60, t % 1000>>

newDate(iso) ==
  (((iso[1] * 24 + iso[2]) * 60 + iso[3]) * 60 + iso[4]) * 1000 + iso[5]

toLocaleDateString(t) == <<ToString(t \div 86400000)>>

(***************************************************************************)
(* Emotional summary                                                       *)
(***************************************************************************)
Increment(counts, emotion) ==
  IF \E i \in 1..Len(counts) : counts[i][1] = emotion
  THEN [i \in 1..Len(counts) |->
          IF counts[i][1] = emotion THEN <<emotion, counts[i][2] + 1>> ELSE counts[i]]
  ELSE Append(counts, <<emotion, 1>>)

RECURSIVE CountEmotions(_, _)
CountEmotions(messages, counts) ==
  IF messages = <<>> THEN counts
  ELSE CountEmotions(Tail(messages),
         IF Head(messages).processingResult.present
            /\ Head(messages).processingResult.hasEmotions
         THEN Increment(counts, Head(messages).processingResult.primary_emotion)
         ELSE counts)

SentimentValue(result) ==
  IF result.sentiment = "positive" THEN 1
  ELSE IF result.sentiment = "negative" THEN -1 ELSE 0

\* `if (message.processingResult?.sentiment_confidence)`: a truthiness test
Counted(message) ==
  message.processingResult.present /\ message.processingResult.sentiment_confidence # 0

TotalSentiment(messages) ==
  SumSeq([i \in 1..Len(messages) |->
            IF Counted(messages[i])
            THEN SentimentValue(messages[i].processingResult)
                   * messages[i].processingResult.sentiment_confidence
            ELSE 0])

SentimentCount(messages) == Cardinality({i \in 1..Len(messages) : Counted(messages[i])})

Fraction(n, d) == <<n \div Gcd(Abs(n), d), d \div Gcd(Abs(n), d)>>

\* Array.prototype.sort with the comparator (a, b) => b - a: stable, descending
RECURSIVE InsertDesc(_, _)
InsertDesc(sorted, entry) ==
  IF sorted = <<>> THEN <<entry>>
  ELSE IF Head(sorted)[2] >= entry[2]
       THEN <<Head(sorted)>> \o InsertDesc(Tail(sorted), entry)
       ELSE <<entry>> \o sorted

RECURSIVE InsertAsc(_, _)
InsertAsc(sorted, entry) ==
  IF sorted = <<>> THEN <<entry>>
  ELSE IF Head(sorted)[2] <= entry[2]
       THEN <<Head(sorted)>> \o InsertAsc(Tail(sorted), entry)
       ELSE <<entry>> \o sorted

RECURSIVE SortAscending(_)
SortAscending(entries) ==
  IF entries = <<>> THEN <<>>
  ELSE InsertAsc(SortAscending(SubSeq(entries, 1, Len(entries) - 1)), entries[Len(entries)])

RECURSIVE SortDescending(_)
SortDescending(entries) ==
  IF entries = <<>> THEN <<>>
  ELSE InsertDesc(SortDescending(SubSeq(entries, 1, Len(entries) - 1)), entries[Len(entries)])

updateEmotionalSummary(conversation) ==
  LET emotionCounts == CountEmotions(conversation.messages, <<>>)
      totalSentiment == TotalSentiment(conversation.messages)
      sentimentCount == SentimentCount(conversation.messages)
  IN  IF Len(emotionCounts) > 0
      THEN [conversation EXCEPT !.emotionalSummary =
              [present |-> TRUE,
               dominantEmotion |-> SortDescending(emotionCounts)[1][1],
               averageSentiment |->
                 IF sentimentCount > 0 THEN Fraction(totalSentiment, sentimentCount)
                 ELSE <<0, 1>>,
               emotionDistribution |-> emotionCounts]]
      ELSE conversation

(***************************************************************************)
(* Persistence: JSON.stringify on save, JSON.parse and date revival on load *)
(***************************************************************************)
MessageKeys ==
  {"id", "type", "content", "timestamp", "audioUrl", "processingResult", "isTyping"}

ConversationKeys ==
  {"id", "title", "messages", "createdAt", "updatedAt", "emotionalSummary"}

\* the value an absent property reads as
UndefinedOf(key) ==
  CASE key = "processingResult" -> NoResult
    [] key = "emotionalSummary" -> NoSummary
    [] OTHER -> Undefined

IsUndefined(object, key) ==
  CASE key = "processingResult" -> ~object[key].present
    [] key = "emotionalSummary" -> ~object[key].present
    [] key \in {"audioUrl", "isTyping"} -> object[key] = Undefined
    [] OTHER -> FALSE

Read(object, key) == IF key \in DOMAIN object THEN object[key] ELSE UndefinedOf(key)

stringifyMessage(msg) ==
  [k \in {key \in MessageKeys : ~IsUndefined(msg, key)} |->
     IF k = "timestamp" THEN toISOString(msg[k]) ELSE msg[k]]

stringifyConversationWithoutSummary(conv) ==
  [k \in {key \in ConversationKeys \ {"emotionalSummary"} : ~IsUndefined(conv, key)} |->
     CASE k \in {"createdAt", "updatedAt"} -> toISOString(conv[k])
       [] k = "messages" ->
            [i \in 1..Len(conv.messages) |-> stringifyMessage(conv.messages[i])]
       [] OTHER -> conv[k]]

stringifyConversation(conv) ==
  [k \in {key \in ConversationKeys : ~IsUndefined(conv, key)} |->
     CASE k \in {"createdAt", "updatedAt"} -> toISOString(conv[k])
       [] k = "messages" ->
            [i \in 1..Len(conv.messages) |-> stringifyMessage(conv.messages[i])]
       [] OTHER -> conv[k]]

JSONstringify(convs) == [i \in 1..Len(convs) |-> stringifyConversation(convs[i])]

\* localStorage holds no item under the key
NoItem == [has |-> FALSE, text |-> "", value |-> <<>>]

\* the item whose text is the JSON of an array: `value` is what JSON.parse
\* makes of it
ArrayItem(value) == [has |-> TRUE, text |-> "array", value |-> value]

\* localStorage.setItem: over the quota it throws and leaves the item as it is
setItem(store, item, exceeded) ==
  IF exceeded THEN [storage |-> store, thrown |-> "QuotaExceededError"]
  ELSE [storage |-> item, thrown |-> ""]

saveConversationsUncaught(store, convs, exceeded) ==
  setItem(store, ArrayItem(JSONstringify(convs)), exceeded)

\* the store it leaves and what it throws: the catch block logs the error
saveConversations(store, convs, exceeded) ==
  [storage |-> setItem(store, ArrayItem(JSONstringify(convs)), exceeded).storage,
   thrown |-> ""]

reviveMessageNoSpread(msg) ==
  [k \in MessageKeys |->
     IF k = "timestamp" THEN newDate(msg[k])
     ELSE IF k \in {"id", "type", "content"} THEN Read(msg, k)
     ELSE UndefinedOf(k)]

\* the time value of `new Date(undefined)`: NaN, an invalid date
InvalidDate == 0 - 1

\* new Date(object[key]), the property being an ISO text or missing
dateOf(object, key) ==
  IF key \in DOMAIN object THEN newDate(object[key]) ELSE InvalidDate

reviveMessage(msg) ==
  [k \in MessageKeys |-> IF k = "timestamp" THEN dateOf(msg, k) ELSE Read(msg, k)]

reviveConversation(conv) ==
  [k \in ConversationKeys |->
     CASE k \in {"createdAt", "updatedAt"} -> dateOf(conv, k)
       [] k = "messages" ->
            [i \in 1..Len(conv.messages) |-> reviveMessage(conv.messages[i])]
       [] OTHER -> Read(conv, k)]

\* what the try block of loadConversations throws ("" if nothing): JSON.parse
\* on text that is no JSON, `.map` on a parsed value that is no array, and
\* `conv.messages.map` on a conversation without messages
thrownInLoad(store) ==
  CASE store.text = "garbage" -> "SyntaxError"
    [] store.text = "object" -> "TypeError"
    [] store.text = "array" ->
         IF \E i \in 1..Len(store.value) : "messages" \notin DOMAIN store.value[i]
         THEN "TypeError" ELSE ""

loadConversationsKeepingGood(store) ==
  IF ~store.has \/ store.text = "" THEN <<>>
  ELSE IF store.text # "array" THEN <<>>
  ELSE LET good == SelectSeq(store.value, LAMBDA conv : "messages" \in DOMAIN conv)
       IN  [i \in 1..Len(good) |-> reviveConversation(good[i])]

\* the list the constructor is left with: the field initializer's [] when
\* there is no item or its text is empty, [] again when the try block throws
loadConversations(store) ==
  IF ~store.has \/ store.text = "" THEN <<>>
  ELSE IF thrownInLoad(store) # "" THEN <<>>
  ELSE [i \in 1..Len(store.value) |-> reviveConversation(store.value[i])]

(***************************************************************************)
(* ConversationManager operations.  Each returns the fields it leaves.     *)
(***************************************************************************)
\* the index of the conversation returned (a reference into the list), 0 for null
getCurrentConversation(convs, current) ==
  IF current = Null THEN 0
  ELSE IF \E i \in 1..Len(convs) : convs[i].id = current
       THEN CHOOSE i \in 1..Len(convs) :
              convs[i].id = current /\ \A j \in 1..(i - 1) : convs[j].id # current
       ELSE 0

getCurrentOrFirst(convs, current) ==
  IF getCurrentConversation(convs, current) # 0 THEN getCurrentConversation(convs, current)
  ELSE IF Len(convs) > 0 THEN 1 ELSE 0

newConversation(title, id, tTitle, tCreated, tUpdated) ==
  [id |-> id,
   title |-> IF title # <<>> THEN title ELSE <<"Conversation ">> \o toLocaleDateString(tTitle),
   messages |-> <<>>,
   createdAt |-> tCreated,
   updatedAt |-> tUpdated,
   emotionalSummary |-> NoSummary]

createConversationAtEnd(convs, title, id, tTitle, tCreated, tUpdated) ==
  [conversations |-> Append(convs, newConversation(title, id, tTitle, tCreated, tUpdated)),
   current |-> id]

createConversation(convs, title, id, tTitle, tCreated, tUpdated) ==
  [conversations |-> <<newConversation(title, id, tTitle, tCreated, tUpdated)>> \o convs,
   current |-> id]

newMessage(message, id, tStamp) ==
  [k \in MessageKeys |->
     CASE k = "id" -> id
       [] k = "timestamp" -> tStamp
       [] OTHER -> message[k]]

appendMessage(conversation, message, id, tStamp, tUpdated) ==
  LET pushed == [conversation EXCEPT
                   !.messages = Append(@, newMessage(message, id, tStamp)),
                   !.updatedAt = tUpdated]
      titled == IF Len(pushed.messages) = 1 /\ message.type = "user"
                THEN [pushed EXCEPT !.title = generateTitle(message.content)]
                ELSE pushed
  IN  updateEmotionalSummary(titled)

addMessageTo(index, convs, message, id, tStamp, tUpdated) ==
  IF index = 0
  THEN [error |-> "No active conversation", conversations |-> convs]
  ELSE [error |-> "",
        conversations |->
          [convs EXCEPT ![index] = appendMessage(@, message, id, tStamp, tUpdated)]]

addMessageToCurrentOrFirst(convs, current, message, id, tStamp, tUpdated) ==
  addMessageTo(getCurrentOrFirst(convs, current), convs, message, id, tStamp, tUpdated)

addMessage(convs, current, message, id, tStamp, tUpdated) ==
  addMessageTo(getCurrentConversation(convs, current), convs, message, id, tStamp, tUpdated)

\* Array.prototype.findIndex, 0 for -1
findIndex(messages, messageId) ==
  IF \E i \in 1..Len(messages) : messages[i].id = messageId
  THEN CHOOSE i \in 1..Len(messages) :
         messages[i].id = messageId /\ \A j \in 1..(i - 1) : messages[j].id # messageId
  ELSE 0

\* { ...message, ...updates }
Merge(message, updates) ==
  [k \in MessageKeys |-> IF k \in DOMAIN updates THEN updates[k] ELSE message[k]]

updateMessageIn(index, convs, messageId, updates, tUpdated) ==
  IF index = 0 \/ findIndex(convs[index].messages, messageId) = 0
  THEN [found |-> FALSE, conversations |-> convs]
  ELSE [found |-> TRUE,
        conversations |->
          [convs EXCEPT
             ![index].messages[findIndex(convs[index].messages, messageId)] =
                Merge(@, updates),
             ![index].updatedAt = tUpdated]]

\* the index of the first conversation holding the message, 0 if none does
holderOf(convs, messageId) ==
  IF \E i \in 1..Len(convs) : findIndex(convs[i].messages, messageId) # 0
  THEN CHOOSE i \in 1..Len(convs) :
         /\ findIndex(convs[i].messages, messageId) # 0
         /\ \A j \in 1..(i - 1) : findIndex(convs[j].messages, messageId) = 0
  ELSE 0

updateMessageAnywhere(convs, current, messageId, updates, tUpdated) ==
  updateMessageIn(holderOf(convs, messageId), convs, messageId, updates, tUpdated)

updateMessage(convs, current, messageId, updates, tUpdated) ==
  updateMessageIn(getCurrentConversation(convs, current), convs, messageId, updates,
                  tUpdated)

deleteConversationAndDeselect(convs, current, id) ==
  [conversations |-> SelectSeq(convs, LAMBDA c : c.id # id),
   current |-> Null]

deleteConversation(convs, current, id) ==
  [conversations |-> SelectSeq(convs, LAMBDA c : c.id # id),
   current |-> IF current = id THEN Null ELSE current]

\* a switch that keeps the pointer when generateId never returned the id
setCurrentConversationValidated(current, id) ==
  IF id > MaxCalls + MaxLedgerCalls THEN current ELSE id

setCurrentConversation(current, id) == id

getConversations(convs) == convs

(***************************************************************************)
(* Daily insights: ConversationManager.getEmotionalInsights                *)
(***************************************************************************)
DayMs == 24 * 60 * 60 * 1000

\* Date.prototype.toDateString: the calendar day, the time of day is dropped
toDateString(t) == <<t \div DayMs>>

\* new Date(dateString).getTime(): the midnight that starts the day
dateStringTime(dateKey) == dateKey[1] * DayMs

\* cutoffDate.setDate(cutoffDate.getDate() - days)
cutoffDate(tNow, days) == tNow - days * DayMs

AddFractions(a, b) == Fraction(a[1] * b[2] + b[1] * a[2], a[2] * b[2])

DivideFraction(a, n) == Fraction(a[1], a[2] * n)

\* emotionBreakdown[emotion] = (emotionBreakdown[emotion] || 0) + count
AddCount(breakdown, emotion, count) ==
  IF \E i \in 1..Len(breakdown) : breakdown[i][1] = emotion
  THEN [i \in 1..Len(breakdown) |->
          IF breakdown[i][1] = emotion THEN <<emotion, breakdown[i][2] + count>>
          ELSE breakdown[i]]
  ELSE Append(breakdown, <<emotion, count>>)

RECURSIVE AddDistribution(_, _)
AddDistribution(breakdown, distribution) ==
  IF distribution = <<>> THEN breakdown
  ELSE AddDistribution(AddCount(breakdown, Head(distribution)[1], Head(distribution)[2]),
                       Tail(distribution))

emptyInsight(dateKey) ==
  [date |-> dateKey, dominantEmotion |-> "", sentimentScore |-> <<0, 1>>,
   conversationCount |-> 0, emotionBreakdown |-> <<>>]

\* the body of the forEach over the conversations inside the window
accumulate(insight, conversation) ==
  IF conversation.emotionalSummary.present
  THEN [insight EXCEPT
          !.conversationCount = @ + 1,
          !.sentimentScore = AddFractions(@, conversation.emotionalSummary.averageSentiment),
          !.emotionBreakdown =
             AddDistribution(@, conversation.emotionalSummary.emotionDistribution)]
  ELSE [insight EXCEPT !.conversationCount = @ + 1]

\* the insights object, its keys in insertion order
RECURSIVE groupByDay(_, _)
groupByDay(convs, insights) ==
  IF convs = <<>> THEN insights
  ELSE LET dateKey == toDateString(Head(convs).updatedAt)
           known == \E i \in 1..Len(insights) : insights[i].date = dateKey
           opened == IF known THEN insights ELSE Append(insights, emptyInsight(dateKey))
       IN  groupByDay(Tail(convs),
             [i \in 1..Len(opened) |->
                IF opened[i].date = dateKey THEN accumulate(opened[i], Head(convs))
                ELSE opened[i]])

finishInsightFirstSeen(insight) ==
  IF insight.conversationCount > 0
  THEN [insight EXCEPT
          !.sentimentScore = DivideFraction(@, insight.conversationCount),
          !.dominantEmotion =
             IF insight.emotionBreakdown # <<>>
             THEN insight.emotionBreakdown[1][1] ELSE @]
  ELSE insight

\* the second forEach: the average of the day and its dominant emotion
finishInsight(insight) ==
  IF insight.conversationCount > 0
  THEN [insight EXCEPT
          !.sentimentScore = DivideFraction(@, insight.conversationCount),
          !.dominantEmotion =
             IF insight.emotionBreakdown # <<>>
             THEN SortDescending(insight.emotionBreakdown)[1][1] ELSE @]
  ELSE insight

\* Array.prototype.sort by the time of the date: stable, ascending
RECURSIVE insertByDate(_, _)
insertByDate(sorted, insight) ==
  IF sorted = <<>> THEN <<insight>>
  ELSE IF dateStringTime(Head(sorted).date) <= dateStringTime(insight.date)
       THEN <<Head(sorted)>> \o insertByDate(Tail(sorted), insight)
       ELSE <<insight>> \o sorted

RECURSIVE sortByDate(_)
sortByDate(insights) ==
  IF insights = <<>> THEN <<>>
  ELSE insertByDate(sortByDate(SubSeq(insights, 1, Len(insights) - 1)),
                    insights[Len(insights)])

getEmotionalInsights(convs, tNow, days) ==
  LET inWindow == SelectSeq(convs, LAMBDA conv : conv.updatedAt >= cutoffDate(tNow, days))
      grouped == groupByDay(inWindow, <<>>)
  IN  sortByDate([i \in 1..Len(grouped) |-> finishInsight(grouped[i])])

(***************************************************************************)
(* CloudWatchService: the queue of metrics and its flushes                 *)
(***************************************************************************)
batchSize == 10

RequeueLimit == 100

\* Array.prototype.splice(0, n): what is removed and what is left
splice(queue, n) ==
  [removed |-> SubSeq(queue, 1, Min(Len(queue), n)),
   left |-> SubSeq(queue, Min(Len(queue), n) + 1, Len(queue))]

\* the key of a metric in the body of the request
metricKey(metric) ==
  IF metric.dimensions # <<>> THEN <<metric.name>> \o metric.dimensions
  ELSE <<metric.name>>

\* formatted[key] = {...}: a later metric of the same key replaces the earlier
RECURSIVE formatMetricsForBackend(_, _)
formatMetricsForBackend(metrics, formatted) ==
  IF metrics = <<>> THEN formatted
  ELSE LET key == metricKey(Head(metrics))
           entry == <<key, [value |-> Head(metrics).value,
                            timestamp |-> Head(metrics).timestamp]>>
       IN  formatMetricsForBackend(Tail(metrics),
             IF \E i \in 1..Len(formatted) : formatted[i][1] = key
             THEN [i \in 1..Len(formatted) |->
                     IF formatted[i][1] = key THEN entry ELSE formatted[i]]
             ELSE Append(formatted, entry))

\* the request that fetch starts
request(metricsToSend) ==
  [metricsToSend |-> metricsToSend,
   body |-> [metrics |-> formatMetricsForBackend(metricsToSend, <<>>),
             source |-> "frontend"]]

\* flushMetrics up to its await: the batch leaves the queue and the request starts
flushMetrics(queue, inFlight, production) ==
  IF Len(queue) = 0 \/ ~production
  THEN [metricsQueue |-> queue, requests |-> inFlight]
  ELSE [metricsQueue |-> splice(queue, batchSize).left,
        requests |-> Append(inFlight, request(splice(queue, batchSize).removed))]

requeueAtEnd(queue, metricsToSend, outcome) ==
  IF outcome = "ok" THEN queue
  ELSE IF Len(queue) < RequeueLimit THEN queue \o metricsToSend ELSE queue

requeueUpToLimit(queue, metricsToSend, outcome) ==
  IF outcome = "ok" THEN queue
  ELSE IF Len(queue) <= RequeueLimit THEN metricsToSend \o queue ELSE queue

\* flushMetrics after its await: the catch block puts the batch back
requeue(queue, metricsToSend, outcome) ==
  IF outcome = "ok" THEN queue
  ELSE IF Len(queue) < RequeueLimit THEN metricsToSend \o queue ELSE queue

\* what the try block throws: fetch rejects, or the response is not ok
thrownInTry(outcome) ==
  CASE outcome = "ok" -> ""
    [] outcome = "status 500" -> "HTTP 500"
    [] outcome = "network error" -> "TypeError: Failed to fetch"

\* the rest of flushMetrics: the queue it leaves and what its promise rejects
\* with ("" when it resolves)
flushSettled(queue, metricsToSend, outcome) ==
  IF thrownInTry(outcome) = ""
  THEN [metricsQueue |-> queue, rejected |-> ""]
  ELSE [metricsQueue |-> requeue(queue, metricsToSend, outcome), rejected |-> ""]

addMetricWithoutFlush(queue, inFlight, production, metric) ==
  IF ~production THEN [metricsQueue |-> queue, requests |-> inFlight]
  ELSE [metricsQueue |-> Append(queue, metric), requests |-> inFlight]

addMetric(queue, inFlight, production, metric) ==
  IF ~production THEN [metricsQueue |-> queue, requests |-> inFlight]
  ELSE IF Len(Append(queue, metric)) >= batchSize
       THEN flushMetrics(Append(queue, metric), inFlight, production)
       ELSE [metricsQueue |-> Append(queue, metric), requests |-> inFlight]

(***************************************************************************)
(* services/openai.ts: generateAIResponse.  Its texts are cut to their     *)
(* first word.                                                             *)
(***************************************************************************)
\* "I'm here to listen. Could you tell me more about what's on your mind?"
TellMeMore == <<"I", "'", "m">>

\* the fallbackResponses of the catch block
fallbackResponses ==
  [positive |-> <<"T", "h", "a", "t">>,
   negative |-> <<"I", " ", "c", "a", "n">>,
   neutral |-> <<"I", "'", "m", " ", "l", "i", "s", "t", "e", "n", "i", "n", "g">>]

\* String.prototype.trim
RECURSIVE TrimStart(_)
TrimStart(s) == IF s # <<>> /\ Head(s) = " " THEN TrimStart(Tail(s)) ELSE s

RECURSIVE TrimEnd(_)
TrimEnd(s) ==
  IF s # <<>> /\ s[Len(s)] = " " THEN TrimEnd(SubSeq(s, 1, Len(s) - 1)) ELSE s

trim(s) == TrimEnd(TrimStart(s))

\* the bindings a name in the catch block resolves to, from the innermost
\* scope outwards: the catch block, the function and the module.  The const
\* declarations of the try block (transcript, sentiment, emotions,
\* conversationHistory, personality, systemPrompt, emotionContext, messages,
\* completion, content) belong to the try block alone.
CatchBlockScope == {"error", "fallbackResponses"}

FunctionScope == {"context"}

ModuleScope ==
  {"OpenAI", "openai", "PERSONALITY_PROMPTS", "generateAIResponse",
   "generateWellnessRecommendation"}

Resolves(name) == name \in CatchBlockScope \cup FunctionScope \cup ModuleScope

\* the try block after the completion call resolved
replyOf(completion) ==
  trim(IF completion.kind = "choices" /\ completion.content # <<>>
       THEN completion.content ELSE TellMeMore)

\* the catch block: fallbackResponses[sentiment] || fallbackResponses.neutral
cannedReply(context) ==
  IF ~Resolves("sentiment")
  THEN [rejected |-> "ReferenceError: sentiment is not defined", content |-> <<>>]
  ELSE [rejected |-> "",
        content |-> IF context.sentiment \in DOMAIN fallbackResponses
                    THEN fallbackResponses[context.sentiment]
                    ELSE fallbackResponses.neutral]

\* what the promise rejects with ("" when it resolves) and the reply
generateAIResponse(context, completion) ==
  IF completion.kind = "rejects" THEN cannedReply(context)
  ELSE [rejected |-> "", content |-> replyOf(completion)]

(***************************************************************************)
(* components/ResponsiveLayout.tsx, ChatInterface: the audio pipeline.     *)
(* An async handler runs up to its next await in one step.  Its texts are  *)
(* cut to their first word.                                                *)
(***************************************************************************)
\* the pipeline is not running; `settled` tells how its last run ended
IdlePipeline(settled) ==
  [handler |-> "", pc |-> "idle", result |-> NoResult, transcript |-> <<>>,
   userMessage |-> Null, aiMessage |-> Null, settled |-> settled]

\* "I'm sorry, I had trouble processing your audio. Could you try again?"
errorMessage ==
  [type |-> "ai", content |-> <<"I", "'", "m", " ", "s", "o", "r", "r", "y">>,
   audioUrl |-> Undefined, processingResult |-> NoResult, isTyping |-> Undefined]

\* "I'm here to listen. What would you like to talk about?"
fallbackMessage ==
  [type |-> "ai", content |-> <<"I", "'", "m", " ", "h", "e", "r", "e">>,
   audioUrl |-> Undefined, processingResult |-> NoResult, isTyping |-> Undefined]

userMessage(transcript, result) ==
  [type |-> "user", content |-> transcript, audioUrl |-> "blob:1",
   processingResult |-> result, isTyping |-> Undefined]

aiMessage(content) ==
  [type |-> "ai", content |-> content, audioUrl |-> Undefined,
   processingResult |-> NoResult, isTyping |-> "true"]

\* the catch block of the handler and what its promise does then: the store
\* it leaves, whether a message was added, and resolved or rejected
handlerCatch(handler, convs, current, id, t) ==
  IF handler = "handleAudioFile"
  THEN [conversations |-> convs, added |-> FALSE, settled |-> "resolved"]
  ELSE IF addMessage(convs, current, errorMessage, id, t, t).error = ""
       THEN [conversations |-> addMessage(convs, current, errorMessage, id, t, t).conversations,
             added |-> TRUE, settled |-> "resolved"]
       ELSE [conversations |-> convs, added |-> FALSE, settled |-> "rejected"]

\* the catch block of generateAndAddAIResponse; when its addMessage throws,
\* the rejection reaches the catch block of the handler that awaits it
responseCatch(handler, convs, current, id, t) ==
  IF addMessage(convs, current, fallbackMessage, id, t, t).error = ""
  THEN [conversations |-> addMessage(convs, current, fallbackMessage, id, t, t).conversations,
        added |-> TRUE, settled |-> "resolved"]
  ELSE handlerCatch(handler, convs, current, id, t)

(***************************************************************************)
(* components/WellnessPanel.tsx: the breathing exercise.  A pending        *)
(* timeout is kept with the phase it sets and with the isBreathingActive   *)
(* that the closure of its startBreathingExercise captured.                *)
(***************************************************************************)
\* WellnessPanel after it mounted
BreathingIdle ==
  [isBreathingActive |-> FALSE, breathingPhase |-> "inhale", breathingTimer |-> Null,
   timeouts |-> <<>>]

Timeout(sets, captured) == [sets |-> sets, isBreathingActive |-> captured]

\* cycle(): the phase is inhale and the timeout that sets hold is pending
cycle(b, captured) ==
  [b EXCEPT !.breathingPhase = "inhale",
            !.timeouts = Append(@, Timeout("hold", captured))]

startBreathingExercise(b) ==
  cycle([b EXCEPT !.isBreathingActive = TRUE, !.breathingPhase = "inhale"],
        b.isBreathingActive)

\* clearTimeout(breathingTimer) cancels the timeout whose id breathingTimer
\* holds; no call stores an id in it
stopBreathingExercise(b) ==
  IF b.breathingTimer # Null
  THEN [b EXCEPT !.isBreathingActive = FALSE, !.timeouts = <<>>, !.breathingTimer = Null]
  ELSE [b EXCEPT !.isBreathingActive = FALSE]

\* the callback of the k-th pending timeout runs
timeoutFires(b, k) ==
  LET fired == b.timeouts[k]
      rest == [b EXCEPT !.timeouts = SubSeq(@, 1, k - 1) \o SubSeq(@, k + 1, Len(@))]
  IN  CASE fired.sets = "hold" ->
             [rest EXCEPT !.breathingPhase = "hold",
                          !.timeouts = Append(@, Timeout("exhale", fired.isBreathingActive))]
        [] fired.sets = "exhale" ->
             [rest EXCEPT !.breathingPhase = "exhale",
                          !.timeouts = Append(@, Timeout("repeat", fired.isBreathingActive))]
        [] OTHER ->
             IF fired.isBreathingActive THEN cycle(rest, fired.isBreathingActive)
             ELSE rest

(***************************************************************************)
(* components/ResponsiveLayout.tsx and components/Recorder.tsx: the        *)
(* recording-duration interval.  `status` is the status of                 *)
(* useReactMediaRecorder, `intervals` the ids window.setInterval returned  *)
(* and no clearInterval cancelled.                                         *)
(***************************************************************************)
RecorderIdle ==
  [mounted |-> TRUE, status |-> "idle", timerId |-> Null, recordingTime |-> 0,
   intervals |-> {}, nextInterval |-> 1]

handleStartRecording(r) ==
  [r EXCEPT !.status = "acquiring_media",
            !.recordingTime = 0,
            !.intervals = @ \cup {r.nextInterval},
            !.timerId = r.nextInterval,
            !.nextInterval = @ + 1]

handleStopRecording(r) ==
  IF r.timerId # Null
  THEN [r EXCEPT !.status = "stopped", !.intervals = @ \ {r.timerId}, !.timerId = Null]
  ELSE [r EXCEPT !.status = "stopped"]

(***************************************************************************)
(* ConversationManager.exportConversation.  The text returned is kept as   *)
(* the sequence of the objects it holds: none for the empty string, else   *)
(* the one object JSON.stringify wrote, its dates as ISO text and its      *)
(* undefined properties left out.                                          *)
(***************************************************************************)
\* msg.processingResult?.emotions?.primary_emotion and
\* msg.processingResult?.sentiment
exportedKeys(msg) ==
  {"type", "content", "timestamp"}
    \cup (IF msg.processingResult.present /\ msg.processingResult.hasEmotions
          THEN {"emotions"} ELSE {})
    \cup (IF msg.processingResult.present THEN {"sentiment"} ELSE {})

exportMessageWithAudio(msg) ==
  [k \in exportedKeys(msg) \cup (IF msg.audioUrl # Undefined THEN {"audioUrl"} ELSE {}) |->
     CASE k = "timestamp" -> toISOString(msg.timestamp)
       [] k = "emotions" -> msg.processingResult.primary_emotion
       [] k = "sentiment" -> msg.processingResult.sentiment
       [] OTHER -> msg[k]]

exportMessage(msg) ==
  [k \in exportedKeys(msg) |->
     CASE k = "timestamp" -> toISOString(msg.timestamp)
       [] k = "emotions" -> msg.processingResult.primary_emotion
       [] k = "sentiment" -> msg.processingResult.sentiment
       [] OTHER -> msg[k]]

exportData(conversation) ==
  [title |-> conversation.title,
   createdAt |-> toISOString(conversation.createdAt),
   messages |-> [j \in 1..Len(conversation.messages) |->
                   exportMessage(conversation.messages[j])]]

\* this.conversations.find(c => c.id === conversationId), 0 for undefined
find(convs, id) ==
  IF \E i \in 1..Len(convs) : convs[i].id = id
  THEN CHOOSE i \in 1..Len(convs) : convs[i].id = id /\ \A j \in 1..(i - 1) : convs[j].id # id
  ELSE 0

exportConversation(convs, id) ==
  IF find(convs, id) = 0 THEN <<>> ELSE <<exportData(convs[find(convs, id)])>>

(***************************************************************************)
(* Inputs of the calls                                                     *)
(***************************************************************************)
EightWords ==
  <<"a", " ", "b", " ", "c", " ", "d", " ", "e", " ", "f", " ", "g", " ", "h">>

SixWords == <<"a", " ", "b", " ", "c", " ", "d", " ", "e", " ", "f">>

SevenWords == <<"p", " ", "q", " ", "r", " ", "s", " ", "t", " ", "u", " ", "v">>

GappedWords == <<"a", " ", " ", "b">>

Result(hasEmotions, emotion, sentiment, confidence) ==
  [present |-> TRUE, hasEmotions |-> hasEmotions, primary_emotion |-> emotion,
   sentiment |-> sentiment, sentiment_confidence |-> confidence]

\* the argument of addMessage: Omit<Message, 'id' | 'timestamp'>
MessageArgs ==
  { [type |-> "user", content |-> EightWords, audioUrl |-> "blob:1",
     processingResult |-> Result(TRUE, "happy", "positive", 8), isTyping |-> Undefined],
    [type |-> "user", content |-> SixWords, audioUrl |-> "blob:2",
     processingResult |-> Result(TRUE, "sad", "negative", 4), isTyping |-> Undefined],
    [type |-> "user", content |-> GappedWords, audioUrl |-> "blob:3",
     processingResult |-> Result(TRUE, "happy", "neutral", 0), isTyping |-> Undefined],
    [type |-> "ai", content |-> SevenWords, audioUrl |-> Undefined,
     processingResult |-> NoResult, isTyping |-> "true"] }

\* the second argument of updateMessage: Partial<Message>
UpdateArgs ==
  { [isTyping |-> "false"],
    [content |-> SixWords, processingResult |-> Result(TRUE, "sad", "negative", 4)],
    [timestamp |-> 0],
    [timestamp |-> StartTime + MaxTick + 1] }

\* the optional argument of createConversation; <<>> is no title
TitleArgs == {<<>>, <<"m", "y">>}

\* an id that generateId never returned: it stands for every id that is not in
\* the list, the id of a deleted conversation or message included
UnknownId == MaxCalls + MaxLedgerCalls + 1

\* the id argument of setCurrentConversation and deleteConversation
ConversationIdArgs == {conversations[i].id : i \in 1..Len(conversations)} \cup {UnknownId}

\* the id argument of updateMessage: a message of any conversation, or of none
MessageIdArgs ==
  UNION {{conversations[i].messages[j].id : j \in 1..Len(conversations[i].messages)} :
           i \in 1..Len(conversations)} \cup {UnknownId}

\* what a `new Date()` can read after one that read t
Reads(t) == {u \in {t, t + 1} : u <= StartTime + MaxTick}

(***************************************************************************)
(* The state machine                                                       *)
(***************************************************************************)
\* what the last call was: its name, its id argument (Null if it has none), the
\* message of the error it threw ("" if it returned) and whether it called
\* localStorage.setItem
Call(op, arg, error, wrote) == [op |-> op, arg |-> arg, error |-> error, wrote |-> wrote]

\* the value of `returned` before any query was made
NothingReturned == <<>>

\* ChatInterface after it mounted
ChatIdle ==
  /\ isProcessing = FALSE
  /\ isAITyping = FALSE
  /\ pipeline = IdlePipeline("")

\* the panels after they mounted
PanelsIdle ==
  /\ breathing = BreathingIdle
  /\ recorder = RecorderIdle

\* the parts of the client a specification does not exercise are at rest
OthersIdle ==
  /\ ChatIdle
  /\ PanelsIdle
  /\ returned = NothingReturned
  /\ metricsQueue = <<>>
  /\ requests = <<>>
  /\ timer = FALSE
  /\ isProduction = FALSE
  /\ quotaExceeded = FALSE

Init ==
  /\ conversations = <<>>
  /\ currentConversationId = Null
  /\ storage = NoItem
  /\ now = StartTime
  /\ nextId = 1
  /\ budget = MaxCalls
  /\ lastCall = Call("constructor", Null, "", FALSE)
  /\ OthersIdle

\* the module is loaded again: `new ConversationManager()` reads the store
NewConversationManager ==
  /\ conversations' = loadConversations(storage)
  /\ currentConversationId' = Null
  /\ lastCall' = Call("constructor", Null, "", FALSE)
  /\ UNCHANGED <<storage, now, nextId, budget>>
  /\ UNCHANGED otherVars

CreateConversation ==
  /\ budget > 0
  /\ UNCHANGED otherVars
  /\ \E title \in TitleArgs : \E tTitle \in Reads(now) :
       \E tCreated \in Reads(tTitle) : \E tUpdated \in Reads(tCreated) :
         LET r == createConversation(conversations, title, nextId, tTitle, tCreated,
                                     tUpdated)
         IN  /\ conversations' = r.conversations
             /\ currentConversationId' = r.current
             /\ storage' = saveConversations(storage, r.conversations, quotaExceeded).storage
             /\ now' = tUpdated
             /\ nextId' = nextId + 1
             /\ budget' = budget - 1
             /\ lastCall' =
                  Call("createConversation", Null,
                       saveConversations(storage, r.conversations, quotaExceeded).thrown,
                       TRUE)

AddMessage ==
  /\ UNCHANGED otherVars
  /\ \E message \in MessageArgs : \E tStamp \in Reads(now) : \E tUpdated \in Reads(tStamp) :
       LET r == addMessage(conversations, currentConversationId, message, nextId, tStamp,
                           tUpdated)
       IN  IF r.error # ""
           THEN /\ lastCall' = Call("addMessage", Null, "No active conversation", FALSE)
                /\ UNCHANGED <<conversations, currentConversationId, storage, now, nextId,
                               budget>>
           ELSE /\ budget > 0
                /\ conversations' = r.conversations
                /\ storage' =
                     saveConversations(storage, r.conversations, quotaExceeded).storage
                /\ now' = tUpdated
                /\ nextId' = nextId + 1
                /\ budget' = budget - 1
                /\ lastCall' =
                     Call("addMessage", Null,
                          saveConversations(storage, r.conversations, quotaExceeded).thrown,
                          TRUE)
                /\ UNCHANGED currentConversationId

UpdateMessage ==
  /\ UNCHANGED otherVars
  /\ \E messageId \in MessageIdArgs : \E updates \in UpdateArgs : \E tUpdated \in Reads(now) :
    LET r == updateMessage(conversations, currentConversationId, messageId, updates,
                           tUpdated)
    IN  IF r.found
        THEN /\ budget > 0
             /\ conversations' = r.conversations
             /\ storage' = saveConversations(storage, r.conversations, quotaExceeded).storage
             /\ now' = tUpdated
             /\ budget' = budget - 1
             /\ lastCall' =
                  Call("updateMessage", messageId,
                       saveConversations(storage, r.conversations, quotaExceeded).thrown,
                       TRUE)
             /\ UNCHANGED <<currentConversationId, nextId>>
        ELSE /\ lastCall' = Call("updateMessage", messageId, "", FALSE)
             /\ UNCHANGED <<conversations, currentConversationId, storage, now, nextId,
                            budget>>

DeleteConversation ==
  /\ UNCHANGED otherVars
  /\ \E id \in ConversationIdArgs :
    LET r == deleteConversation(conversations, currentConversationId, id)
    IN  /\ conversations' = r.conversations
        /\ currentConversationId' = r.current
        /\ storage' = saveConversations(storage, r.conversations, quotaExceeded).storage
        /\ lastCall' =
             Call("deleteConversation", id,
                  saveConversations(storage, r.conversations, quotaExceeded).thrown, TRUE)
        /\ UNCHANGED <<now, nextId, budget>>

SetCurrentConversation ==
  /\ UNCHANGED otherVars
  /\ \E id \in ConversationIdArgs :
    /\ currentConversationId' = setCurrentConversation(currentConversationId, id)
    /\ lastCall' = Call("setCurrentConversation", id, "", FALSE)
    /\ UNCHANGED <<conversations, storage, now, nextId, budget>>

Next ==
  \/ NewConversationManager
  \/ CreateConversation
  \/ AddMessage
  \/ UpdateMessage
  \/ DeleteConversation
  \/ SetCurrentConversation

Spec == Init /\ [][Next]_vars

(***************************************************************************)
(* The message ledger of one session: conversations are created and        *)
(* messages are added and updated, with a longer run of calls.             *)
(***************************************************************************)
LedgerInit ==
  /\ conversations = <<>>
  /\ currentConversationId = Null
  /\ storage = NoItem
  /\ now = StartTime
  /\ nextId = 1
  /\ budget = MaxLedgerCalls
  /\ lastCall = Call("constructor", Null, "", FALSE)
  /\ OthersIdle

LedgerNext ==
  \/ CreateConversation
  \/ AddMessage
  \/ UpdateMessage

LedgerSpec == LedgerInit /\ [][LedgerNext]_vars

(***************************************************************************)
(* The insights query over stored conversations.  The conversations are    *)
(* built with the operations of the store: created at an instant and given *)
(* their messages at that instant.                                         *)
(***************************************************************************)
MaxInsightConversations == 3

EmotionMessage(label) ==
  [type |-> "user", content |-> SixWords, audioUrl |-> Undefined,
   processingResult |-> Result(TRUE, label, "positive", 8), isTyping |-> Undefined]

RECURSIVE addAll(_, _, _, _)
addAll(conversation, labels, id, t) ==
  IF labels = <<>> THEN conversation
  ELSE addAll(appendMessage(conversation, EmotionMessage(Head(labels)), id, t, t),
              Tail(labels), id + 1, t)

InsightConversation(id, labels, t) ==
  addAll(newConversation(<<>>, id, t, t, t), labels, 10 * id, t)

\* the emotions of the messages of one conversation
EmotionRuns ==
  {<<>>, <<"happy">>, <<"happy", "happy", "happy">>, <<"sad", "sad", "happy">>}

\* the last two milliseconds of one day and the first of the next
InsightTimes == {StartTime - 1, StartTime, StartTime + 1}

\* the clock when the insights are asked for: one day after StartTime
InsightNow == StartTime + DayMs

\* the lists of at most `most` conversations, the newest first
InsightLists(most) ==
  UNION {{[i \in 1..n |-> InsightConversation(n - i + 1, pick[i][1], pick[i][2])] :
            pick \in [1..n -> EmotionRuns \X InsightTimes]} :
           n \in 0..most}

\* the argument of getEmotionalInsights
DaysArgs == {0, 1, 7}

InsightInit ==
  /\ conversations \in InsightLists(MaxInsightConversations)
  /\ currentConversationId = Null
  /\ storage = saveConversations(NoItem, conversations, FALSE).storage
  /\ now = InsightNow
  /\ nextId = 10 * (MaxInsightConversations + 2)
  /\ budget = 0
  /\ lastCall = Call("constructor", Null, "", FALSE)
  /\ OthersIdle

GetEmotionalInsights ==
  /\ UNCHANGED panelVars
  /\ \E days \in DaysArgs :
       /\ returned' = getEmotionalInsights(conversations, now, days)
       /\ lastCall' = Call("getEmotionalInsights", days, "", FALSE)
  /\ UNCHANGED <<conversations, currentConversationId, storage, now, nextId, budget>>
  /\ UNCHANGED <<metricVars, quotaExceeded, chatVars>>

InsightNext == GetEmotionalInsights

InsightSpec == InsightInit /\ [][InsightNext]_vars

(***************************************************************************)
(* The metrics service in a session: measurements are added, the interval  *)
(* timer fires, requests settle in any order, the service is destroyed.    *)
(* A session starts with an empty queue or with the backlog that a run of  *)
(* failed flushes has left in it.                                          *)
(***************************************************************************)
MaxMetricCalls == 3

\* the arguments of addMetric: name, value, dimensions (<<>> for none)
MetricArgs == {[name |-> "PageView", value |-> 1, dimensions |-> <<"home">>]}

metricAt(args, t) ==
  [name |-> args.name, value |-> args.value, dimensions |-> args.dimensions,
   timestamp |-> t]

\* the queue after n measurements none of whose flushes succeeded
Backlog(n) ==
  [i \in 1..n |-> metricAt(CHOOSE args \in MetricArgs : TRUE, StartTime - n + i)]

Backlogs == {0, batchSize - 1, RequeueLimit - 1, RequeueLimit + batchSize - 1}

FetchOutcomes == {"ok", "status 500", "network error"}

Remove(s, k) == SubSeq(s, 1, k - 1) \o SubSeq(s, k + 1, Len(s))

MetricsInit ==
  /\ PanelsIdle
  /\ conversations = <<>>
  /\ currentConversationId = Null
  /\ storage = NoItem
  /\ now = StartTime
  /\ nextId = 1
  /\ budget = MaxMetricCalls
  /\ lastCall = Call("constructor", Null, "", FALSE)
  /\ returned = NothingReturned
  /\ ChatIdle
  /\ quotaExceeded = FALSE
  /\ isProduction \in BOOLEAN
  /\ timer = isProduction
  /\ \E n \in Backlogs : metricsQueue = IF isProduction THEN Backlog(n) ELSE <<>>
  /\ requests = <<>>

AddMetric ==
  /\ UNCHANGED panelVars
  /\ budget > 0
  /\ \E args \in MetricArgs :
       LET r == addMetric(metricsQueue, requests, isProduction, metricAt(args, now + 1))
       IN  /\ metricsQueue' = r.metricsQueue
           /\ requests' = r.requests
  /\ now' = now + 1
  /\ budget' = budget - 1
  /\ lastCall' = Call("addMetric", Null, "", FALSE)
  /\ UNCHANGED <<conversations, currentConversationId, storage, nextId, returned, timer,
                 isProduction, quotaExceeded, chatVars>>

\* the callback of setInterval
TimerFires ==
  /\ UNCHANGED panelVars
  /\ budget > 0
  /\ timer
  /\ LET r == flushMetrics(metricsQueue, requests, isProduction)
     IN  /\ metricsQueue' = r.metricsQueue
         /\ requests' = r.requests
  /\ budget' = budget - 1
  /\ lastCall' = Call("timer", Null, "", FALSE)
  /\ UNCHANGED <<conversations, currentConversationId, storage, now, nextId,
                 returned, timer, isProduction, quotaExceeded, chatVars>>

\* the fetch of a flush settles and the flush runs to its end
FetchSettles ==
  /\ UNCHANGED panelVars
  /\ \E k \in 1..Len(requests) : \E outcome \in FetchOutcomes :
       LET r == flushSettled(metricsQueue, requests[k].metricsToSend, outcome)
       IN  /\ metricsQueue' = r.metricsQueue
           /\ requests' = Remove(requests, k)
           /\ returned' = [outcome |-> outcome, metricsToSend |-> requests[k].metricsToSend]
           /\ lastCall' = Call("flushMetrics", Null, r.rejected, FALSE)
  /\ UNCHANGED <<conversations, currentConversationId, storage, now, nextId, budget,
                 timer, isProduction, quotaExceeded, chatVars>>

Destroy ==
  /\ UNCHANGED panelVars
  /\ budget > 0
  /\ LET r == flushMetrics(metricsQueue, requests, isProduction)
     IN  /\ metricsQueue' = r.metricsQueue
         /\ requests' = r.requests
  /\ timer' = FALSE
  /\ budget' = budget - 1
  /\ lastCall' = Call("destroy", Null, "", FALSE)
  /\ UNCHANGED <<conversations, currentConversationId, storage, now, nextId,
                 returned, isProduction, quotaExceeded, chatVars>>

MetricsNext ==
  \/ AddMetric
  \/ TimerFires
  \/ FetchSettles
  \/ Destroy

MetricsSpec == MetricsInit /\ [][MetricsNext]_vars

(***************************************************************************)
(* The store while localStorage is at times over its quota: setItem then   *)
(* throws, and succeeds again once room has been made.  The calls of one   *)
(* run fall into one millisecond.                                          *)
(***************************************************************************)
MaxQuotaCalls == 3

QuotaInit ==
  /\ PanelsIdle
  /\ conversations = <<>>
  /\ currentConversationId = Null
  /\ storage = NoItem
  /\ now = StartTime + MaxTick
  /\ nextId = 1
  /\ budget = MaxQuotaCalls
  /\ lastCall = Call("constructor", Null, "", FALSE)
  /\ returned = NothingReturned
  /\ metricsQueue = <<>>
  /\ requests = <<>>
  /\ timer = FALSE
  /\ isProduction = FALSE
  /\ ChatIdle
  /\ quotaExceeded \in BOOLEAN

\* the origin's storage fills up, or room is made in it
QuotaChanges ==
  /\ UNCHANGED panelVars
  /\ quotaExceeded' = ~quotaExceeded
  /\ lastCall' = Call("quota", Null, "", FALSE)
  /\ UNCHANGED <<conversations, currentConversationId, storage, now, nextId, budget,
                 returned, metricVars, chatVars>>

QuotaNext ==
  \/ CreateConversation
  \/ AddMessage
  \/ UpdateMessage
  \/ DeleteConversation
  \/ QuotaChanges

QuotaSpec == QuotaInit /\ [][QuotaNext]_vars

(***************************************************************************)
(* The page is opened over whatever localStorage holds under the key: the  *)
(* list a session saved, or an item that was damaged since.                *)
(***************************************************************************)
MaxStoredConversations == 2

\* an object without some of its properties
Without(object, keys) == [k \in DOMAIN object \ keys |-> object[k]]

\* the properties a stored conversation can have lost
Damages == {{}, {"messages"}, {"id", "createdAt"}}

StoredRuns == {<<>>, <<"happy">>, <<"sad", "sad", "happy">>}

StoredArrays ==
  UNION {{[i \in 1..n |->
             Without(stringifyConversation(
                       InsightConversation(n - i + 1, pick[i][1], StartTime)),
                     pick[i][2])] :
            pick \in [1..n -> StoredRuns \X Damages]} :
           n \in 0..MaxStoredConversations}

\* no item, an empty text, text that is no JSON, the JSON of an object, and
\* the JSON of arrays
StoredItems ==
  {NoItem,
   [has |-> TRUE, text |-> "", value |-> <<>>],
   [has |-> TRUE, text |-> "garbage", value |-> <<>>],
   [has |-> TRUE, text |-> "object", value |-> <<>>]}
    \cup {ArrayItem(value) : value \in StoredArrays}

LoadInit ==
  /\ conversations = <<>>
  /\ currentConversationId = Null
  /\ storage \in StoredItems
  /\ now = StartTime
  /\ nextId = 10 * (MaxStoredConversations + 2)
  /\ budget = 0
  /\ lastCall = Call("page opened", Null, "", FALSE)
  /\ OthersIdle

LoadNext == NewConversationManager

LoadSpec == LoadInit /\ [][LoadNext]_vars

(***************************************************************************)
(* generateAIResponse over its contexts and the outcomes of the completion *)
(* call                                                                    *)
(***************************************************************************)
Contexts ==
  [transcript : {EightWords, SixWords},
   sentiment : {"positive", "negative", "neutral", "mixed"},
   emotions : BOOLEAN,
   personality : {"supportive", "therapist", "unknown"}]

\* the completion call resolves with a choice, with a choice without content
\* or with no choice, or it rejects
CompletionOutcomes ==
  {[kind |-> "choices", content |-> <<" ", "h", "i", " ">>],
   [kind |-> "choices", content |-> <<>>],
   [kind |-> "no choices", content |-> <<>>],
   [kind |-> "rejects", content |-> <<>>]}

ReplyInit ==
  /\ conversations = <<>>
  /\ currentConversationId = Null
  /\ storage = NoItem
  /\ now = StartTime
  /\ nextId = 1
  /\ budget = 0
  /\ lastCall = Call("constructor", Null, "", FALSE)
  /\ OthersIdle

GenerateAIResponse ==
  /\ UNCHANGED panelVars
  /\ \E context \in Contexts : \E completion \in CompletionOutcomes :
       /\ returned' = [context |-> context, completion |-> completion,
                       response |-> generateAIResponse(context, completion)]
       /\ lastCall' = Call("generateAIResponse", Null,
                           generateAIResponse(context, completion).rejected, FALSE)
  /\ UNCHANGED <<conversations, currentConversationId, storage, now, nextId, budget>>
  /\ UNCHANGED <<metricVars, quotaExceeded, chatVars>>

ReplyNext == GenerateAIResponse

ReplySpec == ReplyInit /\ [][ReplyNext]_vars

(***************************************************************************)
(* The chat view in use: recordings and files go through the pipeline      *)
(* while the user clears the conversation, starts a new one or selects     *)
(* another one.  The App has created the first conversation.  The calls of *)
(* one run fall into one millisecond.                                      *)
(***************************************************************************)
MaxPipelineEvents == 3

Handlers == {"handleAudioProcessing", "handleAudioFile"}

\* what processAudio resolves with; it can also reject
ProcessOutcomes ==
  {[ok |-> FALSE, transcript |-> <<>>, result |-> NoResult],
   [ok |-> TRUE, transcript |-> EightWords,
    result |-> Result(TRUE, "happy", "positive", 8)]}

PipelineCompletions ==
  {[kind |-> "choices", content |-> <<" ", "h", "i", " ">>],
   [kind |-> "rejects", content |-> <<>>]}

contextOf(frame) ==
  [transcript |-> frame.transcript, sentiment |-> frame.result.sentiment,
   emotions |-> frame.result.hasEmotions, personality |-> "supportive"]

PipelineInit ==
  /\ PanelsIdle
  /\ conversations =
       createConversation(<<>>, <<>>, 1, StartTime + MaxTick, StartTime + MaxTick,
                          StartTime + MaxTick).conversations
  /\ currentConversationId = 1
  /\ storage = saveConversations(NoItem, conversations, FALSE).storage
  /\ now = StartTime + MaxTick
  /\ nextId = 2
  /\ budget = MaxPipelineEvents
  /\ lastCall = Call("createConversation", Null, "", TRUE)
  /\ returned = NothingReturned
  /\ metricsQueue = <<>>
  /\ requests = <<>>
  /\ timer = FALSE
  /\ isProduction = FALSE
  /\ quotaExceeded = FALSE
  /\ ChatIdle

\* the run ends: both finally blocks have run and the promise settles
Settle(op, outcome, id) ==
  /\ conversations' = outcome.conversations
  /\ storage' = IF outcome.added
                THEN saveConversations(storage, outcome.conversations, quotaExceeded).storage
                ELSE storage
  /\ nextId' = IF outcome.added THEN id + 1 ELSE id
  /\ isProcessing' = FALSE
  /\ isAITyping' = FALSE
  /\ pipeline' = IdlePipeline(outcome.settled)
  /\ lastCall' = Call(op, Null, IF outcome.settled = "rejected"
                                THEN "No active conversation" ELSE "", outcome.added)

\* a recording stops or a file is chosen: the handler runs up to
\* `await processAudio(...)`
StartPipeline ==
  /\ UNCHANGED panelVars
  /\ pipeline.pc = "idle"
  /\ budget > 0
  /\ budget' = budget - 1
  /\ \E handler \in Handlers :
       /\ pipeline' = [IdlePipeline("") EXCEPT !.handler = handler, !.pc = "processAudio"]
       /\ lastCall' = Call(handler, Null, "", FALSE)
  /\ isProcessing' = TRUE
  /\ UNCHANGED <<conversations, currentConversationId, storage, now, nextId, returned,
                 isAITyping, metricVars, quotaExceeded>>

\* processAudio settles: the user message is added and generateAndAddAIResponse
\* runs up to `await generateAIResponse(...)`, or the catch block runs
ProcessAudioSettles ==
  /\ UNCHANGED panelVars
  /\ pipeline.pc = "processAudio"
  /\ \E outcome \in ProcessOutcomes :
       LET r == addMessage(conversations, currentConversationId,
                           userMessage(outcome.transcript, outcome.result), nextId, now, now)
       IN  IF outcome.ok /\ r.error = ""
           THEN /\ conversations' = r.conversations
                /\ storage' = saveConversations(storage, r.conversations, quotaExceeded).storage
                /\ nextId' = nextId + 1
                /\ isAITyping' = TRUE
                /\ pipeline' = [pipeline EXCEPT !.pc = "generateAIResponse",
                                                !.result = outcome.result,
                                                !.transcript = outcome.transcript,
                                                !.userMessage = nextId]
                /\ lastCall' = Call("processAudio", Null, "", TRUE)
                /\ UNCHANGED isProcessing
           ELSE Settle("processAudio",
                       handlerCatch(pipeline.handler, conversations, currentConversationId,
                                    nextId, now),
                       nextId)
  /\ UNCHANGED <<currentConversationId, now, budget, returned, metricVars, quotaExceeded>>

\* generateAIResponse settles: the AI message is added with isTyping and the
\* typing delay starts, or the catch block runs
GenerateSettles ==
  /\ UNCHANGED panelVars
  /\ pipeline.pc = "generateAIResponse"
  /\ \E completion \in PipelineCompletions :
       LET reply == generateAIResponse(contextOf(pipeline), completion)
           r == addMessage(conversations, currentConversationId, aiMessage(reply.content),
                           nextId, now, now)
       IN  IF reply.rejected = "" /\ r.error = ""
           THEN /\ conversations' = r.conversations
                /\ storage' = saveConversations(storage, r.conversations, quotaExceeded).storage
                /\ nextId' = nextId + 1
                /\ pipeline' = [pipeline EXCEPT !.pc = "typing", !.aiMessage = nextId]
                /\ lastCall' = Call("generateAIResponse", Null, "", TRUE)
                /\ UNCHANGED <<isProcessing, isAITyping>>
           ELSE Settle("generateAIResponse",
                       responseCatch(pipeline.handler, conversations, currentConversationId,
                                     nextId, now),
                       nextId)
  /\ UNCHANGED <<currentConversationId, now, budget, returned, metricVars, quotaExceeded>>

\* the typing delay is over: isTyping is updated, then the reply is spoken
\* when auto-speak is on, or the run ends
TypingDelayElapses ==
  /\ UNCHANGED panelVars
  /\ pipeline.pc = "typing"
  /\ \E speaks \in BOOLEAN :
       LET u == updateMessage(conversations, currentConversationId, pipeline.aiMessage,
                              [isTyping |-> "false"], now)
           saved == IF u.found
                    THEN saveConversations(storage, u.conversations, quotaExceeded).storage
                    ELSE storage
       IN  IF speaks
           THEN /\ conversations' = u.conversations
                /\ storage' = saved
                /\ pipeline' = [pipeline EXCEPT !.pc = "speak"]
                /\ lastCall' = Call("updateMessage", pipeline.aiMessage, "", u.found)
                /\ UNCHANGED <<nextId, isProcessing, isAITyping>>
           ELSE /\ conversations' = u.conversations
                /\ storage' = saved
                /\ isProcessing' = FALSE
                /\ isAITyping' = FALSE
                /\ pipeline' = IdlePipeline("resolved")
                /\ lastCall' = Call("updateMessage", pipeline.aiMessage, "", u.found)
                /\ UNCHANGED nextId
  /\ UNCHANGED <<currentConversationId, now, budget, returned, metricVars, quotaExceeded>>

\* ttsService.speak settles: the run ends, or the catch block runs
SpeakSettles ==
  /\ UNCHANGED panelVars
  /\ pipeline.pc = "speak"
  /\ \E spoken \in BOOLEAN :
       IF spoken
       THEN Settle("speak",
                   [conversations |-> conversations, added |-> FALSE, settled |-> "resolved"],
                   nextId)
       ELSE Settle("speak",
                   responseCatch(pipeline.handler, conversations, currentConversationId,
                                 nextId, now),
                   nextId)
  /\ UNCHANGED <<currentConversationId, now, budget, returned, metricVars, quotaExceeded>>

\* handleClearConversation, confirmed by the user
HandleClearConversation ==
  /\ UNCHANGED panelVars
  /\ budget > 0
  /\ getCurrentConversation(conversations, currentConversationId) # 0
  /\ LET r == deleteConversation(conversations, currentConversationId,
                                 currentConversationId)
     IN  /\ conversations' = r.conversations
         /\ currentConversationId' = r.current
         /\ storage' = saveConversations(storage, r.conversations, quotaExceeded).storage
  /\ budget' = budget - 1
  /\ lastCall' = Call("deleteConversation", currentConversationId, "", TRUE)
  /\ UNCHANGED <<now, nextId, returned, metricVars, quotaExceeded, chatVars>>

\* App.handleNewConversation
HandleNewConversation ==
  /\ UNCHANGED panelVars
  /\ budget > 0
  /\ LET r == createConversation(conversations, <<>>, nextId, now, now, now)
     IN  /\ conversations' = r.conversations
         /\ currentConversationId' = r.current
         /\ storage' = saveConversations(storage, r.conversations, quotaExceeded).storage
  /\ nextId' = nextId + 1
  /\ budget' = budget - 1
  /\ lastCall' = Call("createConversation", Null, "", TRUE)
  /\ UNCHANGED <<now, returned, metricVars, quotaExceeded, chatVars>>

\* App.handleConversationSelect with a conversation of the list
HandleConversationSelect ==
  /\ UNCHANGED panelVars
  /\ budget > 0
  /\ \E i \in 1..Len(conversations) :
       /\ currentConversationId' =
            setCurrentConversation(currentConversationId, conversations[i].id)
       /\ lastCall' = Call("setCurrentConversation", conversations[i].id, "", FALSE)
  /\ budget' = budget - 1
  /\ UNCHANGED <<conversations, storage, now, nextId, returned, metricVars, quotaExceeded,
                 chatVars>>

PipelineNext ==
  \/ StartPipeline
  \/ ProcessAudioSettles
  \/ GenerateSettles
  \/ TypingDelayElapses
  \/ SpeakSettles
  \/ HandleClearConversation
  \/ HandleNewConversation
  \/ HandleConversationSelect

PipelineSpec == PipelineInit /\ [][PipelineNext]_vars

(***************************************************************************)
(* The breathing exercise under the clicks on its Start / Stop button and  *)
(* the timeouts                                                            *)
(***************************************************************************)
MaxBreathingClicks == 6

BreathingInit ==
  /\ conversations = <<>>
  /\ currentConversationId = Null
  /\ storage = NoItem
  /\ now = StartTime
  /\ nextId = 1
  /\ budget = MaxBreathingClicks
  /\ lastCall = Call("mount", Null, "", FALSE)
  /\ OthersIdle

\* the button shows Start while isBreathingActive is false
StartBreathingExercise ==
  /\ budget > 0
  /\ ~breathing.isBreathingActive
  /\ breathing' = startBreathingExercise(breathing)
  /\ budget' = budget - 1
  /\ lastCall' = Call("startBreathingExercise", Null, "", FALSE)
  /\ UNCHANGED <<conversations, currentConversationId, storage, now, nextId, returned,
                 metricVars, quotaExceeded, chatVars, recorder>>

StopBreathingExercise ==
  /\ budget > 0
  /\ breathing.isBreathingActive
  /\ breathing' = stopBreathingExercise(breathing)
  /\ budget' = budget - 1
  /\ lastCall' = Call("stopBreathingExercise", Null, "", FALSE)
  /\ UNCHANGED <<conversations, currentConversationId, storage, now, nextId, returned,
                 metricVars, quotaExceeded, chatVars, recorder>>

TimeoutFires ==
  /\ \E k \in 1..Len(breathing.timeouts) :
       /\ breathing' = timeoutFires(breathing, k)
       /\ lastCall' = Call("timeout", Null, "", FALSE)
  /\ UNCHANGED <<conversations, currentConversationId, storage, now, nextId, budget,
                 returned, metricVars, quotaExceeded, chatVars, recorder>>

BreathingNext ==
  \/ StartBreathingExercise
  \/ StopBreathingExercise
  \/ TimeoutFires

BreathingSpec == BreathingInit /\ [][BreathingNext]_vars

(***************************************************************************)
(* The recorder under the clicks on its Start / Stop button, the media     *)
(* recorder's status changes, the ticks of the interval and the unmount    *)
(***************************************************************************)
MaxRecorderClicks == 3

MaxRecordingTime == 2

RecorderInit ==
  /\ conversations = <<>>
  /\ currentConversationId = Null
  /\ storage = NoItem
  /\ now = StartTime
  /\ nextId = 1
  /\ budget = MaxRecorderClicks
  /\ lastCall = Call("mount", Null, "", FALSE)
  /\ OthersIdle

\* the button shows Start while status is not 'recording'
HandleStartRecording ==
  /\ budget > 0
  /\ recorder.mounted
  /\ recorder.status # "recording"
  /\ recorder' = handleStartRecording(recorder)
  /\ budget' = budget - 1
  /\ lastCall' = Call("handleStartRecording", Null, "", FALSE)
  /\ UNCHANGED <<conversations, currentConversationId, storage, now, nextId, returned,
                 metricVars, quotaExceeded, chatVars, breathing>>

\* getUserMedia settles: the recording starts, or the permission is denied
MediaSettles ==
  /\ recorder.status = "acquiring_media"
  /\ \E granted \in BOOLEAN :
       recorder' = [recorder EXCEPT !.status = IF granted THEN "recording" ELSE "idle"]
  /\ lastCall' = Call("getUserMedia", Null, "", FALSE)
  /\ UNCHANGED <<conversations, currentConversationId, storage, now, nextId, budget,
                 returned, metricVars, quotaExceeded, chatVars, breathing>>

\* the button shows Stop while status is 'recording'
HandleStopRecording ==
  /\ budget > 0
  /\ recorder.mounted
  /\ recorder.status = "recording"
  /\ recorder' = handleStopRecording(recorder)
  /\ budget' = budget - 1
  /\ lastCall' = Call("handleStopRecording", Null, "", FALSE)
  /\ UNCHANGED <<conversations, currentConversationId, storage, now, nextId, returned,
                 metricVars, quotaExceeded, chatVars, breathing>>

\* the callback of an interval runs: setRecordingTime(prev => prev + 1), which
\* does nothing once the component is unmounted
IntervalFires ==
  /\ recorder.intervals # {}
  /\ recorder.recordingTime < MaxRecordingTime
  /\ recorder' = [recorder EXCEPT !.recordingTime = IF recorder.mounted THEN @ + 1 ELSE @]
  /\ lastCall' = Call("interval", Null, "", FALSE)
  /\ UNCHANGED <<conversations, currentConversationId, storage, now, nextId, budget,
                 returned, metricVars, quotaExceeded, chatVars, breathing>>

\* the component is torn down; it registers no cleanup for the interval
Unmount ==
  /\ recorder.mounted
  /\ recorder' = [recorder EXCEPT !.mounted = FALSE]
  /\ lastCall' = Call("unmount", Null, "", FALSE)
  /\ UNCHANGED <<conversations, currentConversationId, storage, now, nextId, budget,
                 returned, metricVars, quotaExceeded, chatVars, breathing>>

RecorderNext ==
  \/ HandleStartRecording
  \/ MediaSettles
  \/ HandleStopRecording
  \/ IntervalFires
  \/ Unmount

RecorderSpec == RecorderInit /\ [][RecorderNext]_vars

(***************************************************************************)
(* exportConversation over conversation lists that createConversation and  *)
(* addMessage build                                                        *)
(***************************************************************************)
MaxExportConversations == 2

RECURSIVE addEach(_, _, _, _)
addEach(conversation, messages, id, t) ==
  IF messages = <<>> THEN conversation
  ELSE addEach(appendMessage(conversation, Head(messages), id, t, t),
               Tail(messages), id + 1, t + 1)

ExportConversationOf(id, messages) ==
  addEach(newConversation(<<>>, id, StartTime, StartTime, StartTime), messages, 10 * id,
          StartTime)

\* the messages of one conversation: none, a recording, a recording and its
\* reply, or an AI message and a recording after it
ExportRuns ==
  {<<>>}
    \cup {<<u>> : u \in {m \in MessageArgs : m.type = "user"}}
    \cup {<<u, a>> : <<u, a>> \in {m \in MessageArgs : m.type = "user"}
                                 \X {m \in MessageArgs : m.type = "ai"}}
    \cup {<<a, u>> : <<a, u>> \in {m \in MessageArgs : m.type = "ai"}
                                 \X {m \in MessageArgs : m.type = "user"}}

\* the lists of at most `most` conversations, the newest first
ExportLists(most) ==
  UNION {{[i \in 1..n |-> ExportConversationOf(n - i + 1, pick[i])] :
            pick \in [1..n -> ExportRuns]} :
           n \in 0..most}

ExportInit ==
  /\ conversations \in ExportLists(MaxExportConversations)
  /\ currentConversationId = IF conversations = <<>> THEN Null ELSE conversations[1].id
  /\ storage = saveConversations(NoItem, conversations, FALSE).storage
  /\ now = StartTime + 2
  /\ nextId = 10 * (MaxExportConversations + 2)
  /\ budget = 0
  /\ lastCall = Call("addMessage", Null, "", TRUE)
  /\ OthersIdle

ExportConversation ==
  /\ \E id \in ConversationIdArgs :
       /\ returned' = exportConversation(conversations, id)
       /\ lastCall' = Call("exportConversation", id, "", FALSE)
  /\ UNCHANGED <<conversations, currentConversationId, storage, now, nextId, budget>>
  /\ UNCHANGED <<metricVars, quotaExceeded, chatVars, panelVars>>

ExportNext == ExportConversation

ExportSpec == ExportInit /\ [][ExportNext]_vars

(***************************************************************************)
(* Vocabulary of the properties                                            *)
(***************************************************************************)
\* getCurrentConversation() in this state and in the next one
Current == getCurrentConversation(conversations, currentConversationId)

CurrentNext == getCurrentConversation(conversations', currentConversationId')

Ids(convs) == {convs[i].id : i \in 1..Len(convs)}

CarriesEmotion(message) ==
  message.processingResult.present /\ message.processingResult.hasEmotions

CarriesSentiment(message) == message.processingResult.present

EmotionsOf(messages) ==
  [j \in 1..Len(messages) |->
     IF CarriesEmotion(messages[j]) THEN messages[j].processingResult.primary_emotion
     ELSE "none"]

TimestampsOrdered(messages) ==
  \A j \in 1..Len(messages) : \A k \in j..Len(messages) :
    messages[j].timestamp <= messages[k].timestamp

\* C1: saving any reachable conversation list and loading the saved value
\* gives back the same conversations in the same order, with the same ids,
\* titles, summaries and messages, and dates that denote the same instants.
SameMessage(a, b) ==
  /\ a.id = b.id
  /\ a.type = b.type
  /\ a.content = b.content
  /\ a.processingResult = b.processingResult
  /\ a.timestamp = b.timestamp

SameConversation(a, b) ==
  /\ a.id = b.id
  /\ a.title = b.title
  /\ a.emotionalSummary = b.emotionalSummary
  /\ a.createdAt = b.createdAt
  /\ a.updatedAt = b.updatedAt
  /\ Len(a.messages) = Len(b.messages)
  /\ \A j \in 1..Len(a.messages) : SameMessage(a.messages[j], b.messages[j])

C1_RoundTrip ==
  LET loaded == loadConversations(saveConversations(storage, conversations, FALSE).storage)
  IN  /\ Len(loaded) = Len(conversations)
      /\ \A i \in 1..Len(conversations) : SameConversation(loaded[i], conversations[i])

\* a manager was constructed from a saved list that holds a summary, an analysed
\* message and a message stamped in another millisecond than the creation
C1_Witness ==
  /\ lastCall.op = "constructor"
  /\ storage.has
  /\ \E i \in 1..Len(conversations) :
       /\ conversations[i].emotionalSummary.present
       /\ \E j \in 1..Len(conversations[i].messages) :
            /\ conversations[i].messages[j].processingResult.present
            /\ conversations[i].messages[j].timestamp # conversations[i].createdAt

\* C2: across every step the messages of a conversation that stays in the list
\* keep their places and none is removed, an addMessage appends exactly one
\* message at the end, and the timestamps along each list never decrease.
C2_StepAppendOnly ==
  /\ \A i \in 1..Len(conversations) : \A k \in 1..Len(conversations') :
       conversations[i].id = conversations'[k].id =>
         /\ Len(conversations'[k].messages) >= Len(conversations[i].messages)
         /\ \A j \in 1..Len(conversations[i].messages) :
              conversations'[k].messages[j].id = conversations[i].messages[j].id
  /\ (lastCall'.op = "addMessage" /\ lastCall'.error = "") =>
       /\ Current # 0 /\ CurrentNext = Current
       /\ Len(conversations'[Current].messages) = Len(conversations[Current].messages) + 1
  /\ \A k \in 1..Len(conversations') : TimestampsOrdered(conversations'[k].messages)

C2_AppendOnlyOrdered == [][C2_StepAppendOnly]_vars

\* C3: when the first message of a conversation is a user message of n words,
\* the title becomes its first min(n, 6) words joined by single spaces, with
\* "..." after them exactly when n > 6, and no later addMessage or
\* updateMessage changes the title of a conversation that has a message.
SpacesIn(content) == {p \in 1..Len(content) : content[p] = " "}

\* the place of the space that ends the sixth word
SixthSpace(content) ==
  CHOOSE p \in SpacesIn(content) :
    Cardinality({q \in SpacesIn(content) : q < p}) = TitleWords - 1

ExpectedTitle(content) ==
  IF Cardinality(SpacesIn(content)) + 1 > TitleWords
  THEN SubSeq(content, 1, SixthSpace(content) - 1) \o <<".", ".", ".">>
  ELSE content

C3_StepTitle ==
  lastCall'.op \in {"addMessage", "updateMessage"} =>
    \A i \in 1..Len(conversations) : \A k \in 1..Len(conversations') :
      conversations[i].id = conversations'[k].id =>
        /\ (/\ Len(conversations[i].messages) = 0
            /\ Len(conversations'[k].messages) = 1
            /\ conversations'[k].messages[1].type = "user")
             => conversations'[k].title = ExpectedTitle(conversations'[k].messages[1].content)
        /\ Len(conversations[i].messages) >= 1
             => conversations'[k].title = conversations[i].title

C3_TitleDerivation == [][C3_StepTitle]_vars

\* the title "a b c d e f..." was derived from a first user message of eight
\* words and outlived a later message
C3_Witness ==
  \E i \in 1..Len(conversations) :
    /\ Len(conversations[i].messages) >= 2
    /\ conversations[i].messages[1].type = "user"
    /\ conversations[i].messages[1].content = EightWords
    /\ conversations[i].title =
         <<"a", " ", "b", " ", "c", " ", "d", " ", "e", " ", "f", ".", ".", ".">>

\* C4: after every addMessage and every updateMessage that finds its message,
\* the summary of the current conversation is what a recomputation from
\* scratch over its messages gives.
RecomputedSummary(conversation) ==
  updateEmotionalSummary([conversation EXCEPT !.emotionalSummary = NoSummary]).emotionalSummary

C4_SummaryIsFullRecompute ==
  (lastCall.op \in {"addMessage", "updateMessage"} /\ lastCall.wrote) =>
    /\ Current # 0
    /\ conversations[Current].emotionalSummary = RecomputedSummary(conversations[Current])

\* C5: after an addMessage on a conversation with a message that carries
\* emotion analysis, emotionDistribution holds each label once with the exact
\* number of messages carrying it, labels of no message are absent, and
\* dominantEmotion is a label whose count no other label's count exceeds.
Labels(messages) ==
  {messages[j].processingResult.primary_emotion :
     j \in {n \in 1..Len(messages) : CarriesEmotion(messages[n])}}

Occurrences(messages, label) ==
  Cardinality({j \in 1..Len(messages) :
                 CarriesEmotion(messages[j])
                 /\ messages[j].processingResult.primary_emotion = label})

DistributionExact(distribution, messages) ==
  /\ {distribution[n][1] : n \in 1..Len(distribution)} = Labels(messages)
  /\ \A n \in 1..Len(distribution) : \A m \in 1..Len(distribution) :
       distribution[n][1] = distribution[m][1] => n = m
  /\ \A n \in 1..Len(distribution) :
       distribution[n][2] = Occurrences(messages, distribution[n][1])

C5_DominantAndDistribution ==
  (/\ lastCall.op = "addMessage"
   /\ lastCall.error = ""
   /\ Current # 0
   /\ Labels(conversations[Current].messages) # {}) =>
    LET summary == conversations[Current].emotionalSummary
        messages == conversations[Current].messages
    IN  /\ summary.present
        /\ DistributionExact(summary.emotionDistribution, messages)
        /\ summary.dominantEmotion \in Labels(messages)
        /\ \A label \in Labels(messages) :
             Occurrences(messages, summary.dominantEmotion) >= Occurrences(messages, label)

\* the scenario [happy, happy, sad]
C5_Witness ==
  /\ lastCall.op = "addMessage"
  /\ lastCall.error = ""
  /\ Current # 0
  /\ EmotionsOf(conversations[Current].messages) = <<"happy", "happy", "sad">>
  /\ conversations[Current].emotionalSummary.dominantEmotion = "happy"
  /\ conversations[Current].emotionalSummary.emotionDistribution =
       <<<<"happy", 2>>, <<"sad", 1>>>>

\* C6: whenever a summary is computed, averageSentiment is the sum of
\* polarity times confidence over all messages that carry sentiment analysis
\* divided by the number of those messages, whatever their confidence, and 0
\* when there are none.
Polarity(sentiment) ==
  IF sentiment = "positive" THEN 1 ELSE IF sentiment = "negative" THEN -1 ELSE 0

WeightedPolarities(messages) ==
  [j \in 1..Len(messages) |->
     IF CarriesSentiment(messages[j])
     THEN Polarity(messages[j].processingResult.sentiment)
            * messages[j].processingResult.sentiment_confidence
     ELSE 0]

CarryingSentiment(messages) ==
  Cardinality({j \in 1..Len(messages) : CarriesSentiment(messages[j])})

C6_AverageSentiment ==
  (/\ lastCall.op = "addMessage"
   /\ lastCall.error = ""
   /\ Current # 0
   /\ Labels(conversations[Current].messages) # {}) =>
    LET average == conversations[Current].emotionalSummary.averageSentiment
        messages == conversations[Current].messages
    IN  IF CarryingSentiment(messages) = 0
        THEN average[1] = 0
        ELSE average[1] * CarryingSentiment(messages)
               = SumSeq(WeightedPolarities(messages)) * average[2]

\* C7: deleting the current conversation leaves getCurrentConversation()
\* null, and it stays null until createConversation or setCurrentConversation
\* with an id of the list is called; deleting another conversation of the list
\* leaves the pointer and the current conversation as they were.
C7_StepDelete ==
  /\ (/\ lastCall'.op = "deleteConversation"
      /\ Current # 0
      /\ lastCall'.arg = conversations[Current].id) =>
       /\ currentConversationId' = Null
       /\ CurrentNext = 0
  /\ (Current = 0 /\ CurrentNext # 0) =>
       \/ lastCall'.op = "createConversation"
       \/ /\ lastCall'.op = "setCurrentConversation"
          /\ lastCall'.arg \in Ids(conversations)
  /\ (/\ lastCall'.op = "deleteConversation"
      /\ lastCall'.arg \in Ids(conversations)
      /\ lastCall'.arg # currentConversationId) =>
       /\ currentConversationId' = currentConversationId
       /\ (Current = 0 => CurrentNext = 0)
       /\ (Current # 0 =>
             /\ CurrentNext # 0
             /\ conversations'[CurrentNext] = conversations[Current])

C7_DeletionClearsCurrent == [][C7_StepDelete]_vars

\* a conversation was deleted, another one is still listed and nothing is current
C7_Witness ==
  /\ lastCall.op = "deleteConversation"
  /\ lastCall.arg \notin Ids(conversations)
  /\ lastCall.arg # UnknownId
  /\ currentConversationId = Null
  /\ Current = 0
  /\ Len(conversations) >= 1

\* C8: addMessage called while getCurrentConversation() is null (the pointer
\* is unset or names an id that is not in the list) throws 'No active
\* conversation', changes no conversation and writes nothing to storage.
C8_StepAddWithoutCurrent ==
  (lastCall'.op = "addMessage" /\ Current = 0) =>
    /\ lastCall'.error = "No active conversation"
    /\ ~lastCall'.wrote
    /\ conversations' = conversations
    /\ storage' = storage
    /\ currentConversationId' = currentConversationId

C8_AddWithoutCurrentThrows == [][C8_StepAddWithoutCurrent]_vars

\* addMessage threw while conversations were listed and the pointer named an id
\* that is not in the list
C8_Witness ==
  /\ lastCall.op = "addMessage"
  /\ lastCall.error = "No active conversation"
  /\ Len(conversations) >= 1
  /\ currentConversationId # Null
  /\ currentConversationId \notin Ids(conversations)

\* C9: updateMessage with an id that matches no message of the current
\* conversation (there is no current conversation, or the id is unknown or
\* belongs to a message of another conversation) changes nothing, writes
\* nothing and raises no error; when the message is found, only that message
\* and the updatedAt of the current conversation change, and the number and
\* order of the messages stay the same.
InCurrent(messageId) ==
  /\ Current # 0
  /\ \E j \in 1..Len(conversations[Current].messages) :
       conversations[Current].messages[j].id = messageId

C9_StepUpdate ==
  lastCall'.op = "updateMessage" =>
    /\ lastCall'.error = ""
    /\ currentConversationId' = currentConversationId
    /\ ~InCurrent(lastCall'.arg) =>
         /\ conversations' = conversations
         /\ storage' = storage
         /\ ~lastCall'.wrote
    /\ InCurrent(lastCall'.arg) =>
         /\ Len(conversations') = Len(conversations)
         /\ \A i \in 1..Len(conversations) :
              i # Current => conversations'[i] = conversations[i]
         /\ conversations'[Current].id = conversations[Current].id
         /\ conversations'[Current].title = conversations[Current].title
         /\ conversations'[Current].createdAt = conversations[Current].createdAt
         /\ conversations'[Current].emotionalSummary
              = conversations[Current].emotionalSummary
         /\ Len(conversations'[Current].messages) = Len(conversations[Current].messages)
         /\ \A j \in 1..Len(conversations[Current].messages) :
              conversations[Current].messages[j].id # lastCall'.arg =>
                conversations'[Current].messages[j] = conversations[Current].messages[j]
         /\ \A j \in 1..Len(conversations[Current].messages) :
              conversations'[Current].messages[j].id = conversations[Current].messages[j].id

C9_UpdateFrame == [][C9_StepUpdate]_vars

\* updateMessage was called with the id of a message of a conversation that is
\* listed but not current, and wrote nothing
C9_Witness ==
  /\ lastCall.op = "updateMessage"
  /\ ~lastCall.wrote
  /\ Current # 0
  /\ \E i \in 1..Len(conversations) :
       /\ i # Current
       /\ \E j \in 1..Len(conversations[i].messages) :
            conversations[i].messages[j].id = lastCall.arg

\* C10: createConversation puts the new conversation, with no messages, at
\* index 0, keeps the others in their order behind it and makes it current;
\* after every call the list is in most-recently-created-first order.
MostRecentFirst(convs) ==
  \A i \in 1..Len(convs) : \A k \in (i + 1)..Len(convs) :
    /\ convs[i].id > convs[k].id
    /\ convs[i].createdAt >= convs[k].createdAt

C10_StepCreate ==
  /\ lastCall'.op = "createConversation" =>
       /\ Len(conversations') = Len(conversations) + 1
       /\ conversations'[1].messages = <<>>
       /\ conversations'[1].id \notin Ids(conversations)
       /\ Tail(conversations') = conversations
       /\ CurrentNext = 1
  /\ MostRecentFirst(getConversations(conversations'))

C10_CreateAtFront == [][C10_StepCreate]_vars

\* a conversation was created in front of an older one that holds a message
C10_Witness ==
  /\ lastCall.op = "createConversation"
  /\ Len(conversations) >= 2
  /\ Current = 1
  /\ \E i \in 2..Len(conversations) : Len(conversations[i].messages) >= 1

\* C11: getEmotionalInsights(days) returns one entry for each calendar day on
\* which a conversation of the trailing window was last updated, in ascending
\* order of date; the entry counts the conversations of the window updated
\* that day, its emotionBreakdown holds for each label the sum of their
\* emotionDistribution counts, and its dominantEmotion is a label of maximal
\* summed count.
CalendarDay(t) == t \div DayMs

InsightLabels == {"happy", "sad"}

WindowOf(days) ==
  {i \in 1..Len(conversations) : conversations[i].updatedAt >= now - days * DayMs}

CountOf(distribution, label) ==
  SumSeq([k \in 1..Len(distribution) |->
            IF distribution[k][1] = label THEN distribution[k][2] ELSE 0])

\* the sum over the conversations of the window updated on the day
SummedCount(days, day, label) ==
  SumSeq([i \in 1..Len(conversations) |->
            IF i \in WindowOf(days) /\ CalendarDay(conversations[i].updatedAt) = day
            THEN CountOf(conversations[i].emotionalSummary.emotionDistribution, label)
            ELSE 0])

InsightExact(days, insight) ==
  LET day == insight.date[1]
      breakdown == insight.emotionBreakdown
  IN  /\ insight.conversationCount =
           Cardinality({i \in WindowOf(days) :
                          CalendarDay(conversations[i].updatedAt) = day})
      /\ \A k \in 1..Len(breakdown) :
           /\ breakdown[k][1] \in InsightLabels
           /\ breakdown[k][2] > 0
           /\ \A l \in 1..Len(breakdown) : breakdown[l][1] = breakdown[k][1] => l = k
      /\ \A label \in InsightLabels :
           CountOf(breakdown, label) = SummedCount(days, day, label)
      /\ IF breakdown = <<>> THEN insight.dominantEmotion = ""
         ELSE /\ insight.dominantEmotion \in InsightLabels
              /\ \A label \in InsightLabels :
                   SummedCount(days, day, insight.dominantEmotion)
                     >= SummedCount(days, day, label)

C11_DailyInsights ==
  lastCall.op = "getEmotionalInsights" =>
    LET days == lastCall.arg
    IN  /\ {returned[k].date[1] : k \in 1..Len(returned)} =
             {CalendarDay(conversations[i].updatedAt) : i \in WindowOf(days)}
        /\ \A k \in 1..Len(returned) : \A l \in 1..Len(returned) :
             k < l => returned[k].date[1] < returned[l].date[1]
        /\ \A k \in 1..Len(returned) : InsightExact(days, returned[k])

\* two conversations of one day with happy: 3 and happy: 1
C11_Witness ==
  /\ lastCall.op = "getEmotionalInsights"
  /\ Len(conversations) = 2
  /\ conversations[1].emotionalSummary.emotionDistribution = <<<<"happy", 3>>>>
  /\ conversations[2].emotionalSummary.emotionDistribution = <<<<"happy", 1>>>>
  /\ Len(returned) = 1
  /\ returned[1].conversationCount = 2
  /\ returned[1].emotionBreakdown = <<<<"happy", 4>>>>
  /\ returned[1].dominantEmotion = "happy"

\* C12: in production mode an addMetric call that brings the queue to
\* batchSize entries or more starts a flush inside the call: the first
\* batchSize entries leave the front of the queue and a request carrying them
\* is in flight when the call returns; ten measurements put into an empty
\* queue leave the queue empty and one request in flight.
C12_StepAddMetric ==
  (lastCall'.op = "addMetric" /\ isProduction /\ Len(metricsQueue) + 1 >= batchSize) =>
    /\ Len(requests') = Len(requests) + 1
    /\ SubSeq(requests', 1, Len(requests)) = requests
    /\ LET sent == requests'[Len(requests')].metricsToSend
       IN  /\ Len(sent) = batchSize
           /\ Len(metricsQueue') = Len(metricsQueue) + 1 - batchSize
           /\ SubSeq(sent \o metricsQueue', 1, Len(metricsQueue)) = metricsQueue
    /\ (Len(metricsQueue) = batchSize - 1 /\ requests = <<>>) =>
         (metricsQueue' = <<>> /\ Len(requests') = 1)

C12_ImmediateFlush == [][C12_StepAddMetric]_vars

\* the tenth measurement has just been added to a queue that held nine
C12_Witness ==
  /\ lastCall.op = "addMetric"
  /\ isProduction
  /\ budget = MaxMetricCalls - 1
  /\ metricsQueue = <<>>
  /\ Len(requests) = 1
  /\ Len(requests[1].metricsToSend) = batchSize
  /\ requests[1].metricsToSend[batchSize].timestamp = now

\* C13: when the request of a flush fails, through a network error or a
\* status that is not OK, its batch goes back to the front of the queue in its
\* order if the queue then holds fewer than 100 entries and is dropped
\* otherwise; no call of addMetric, timer callback, destroy or flush ends in
\* an exception.
C13_StepSettle ==
  /\ lastCall'.op \in {"addMetric", "timer", "destroy", "flushMetrics"} =>
       lastCall'.error = ""
  /\ (lastCall'.op = "flushMetrics" /\ returned'.outcome # "ok") =>
       /\ \E k \in 1..Len(requests) :
            /\ requests[k].metricsToSend = returned'.metricsToSend
            /\ requests' = Remove(requests, k)
       /\ IF Len(metricsQueue) < RequeueLimit
          THEN metricsQueue' = returned'.metricsToSend \o metricsQueue
          ELSE metricsQueue' = metricsQueue

C13_FailedFlushRequeued == [][C13_StepSettle]_vars

\* a flush has failed while the queue held 100 entries: its batch is gone
C13_Witness ==
  /\ lastCall.op = "flushMetrics"
  /\ returned.outcome = "network error"
  /\ Len(metricsQueue) = RequeueLimit
  /\ requests = <<>>
  /\ \A i \in 1..Len(metricsQueue) : \A j \in 1..Len(returned.metricsToSend) :
       metricsQueue[i] # returned.metricsToSend[j]

\* C14: when the write to localStorage fails in createConversation,
\* addMessage, updateMessage or deleteConversation, the call still ends
\* without an exception, the list in memory shows its effect and the persisted
\* value stays as it was; a write that succeeds persists the whole list that
\* is then in memory.
PersistsMemory(store, convs) ==
  /\ store.has
  /\ Len(loadConversations(store)) = Len(convs)
  /\ \A i \in 1..Len(convs) : SameConversation(loadConversations(store)[i], convs[i])

C14_StepWrite ==
  lastCall'.wrote =>
    /\ lastCall'.error = ""
    /\ lastCall'.op = "createConversation" =>
         /\ Len(conversations') = Len(conversations) + 1
         /\ conversations'[1].id \notin Ids(conversations)
         /\ currentConversationId' = conversations'[1].id
    /\ lastCall'.op = "addMessage" =>
         /\ Current # 0 /\ CurrentNext = Current
         /\ Len(conversations'[Current].messages) = Len(conversations[Current].messages) + 1
    /\ lastCall'.op = "updateMessage" =>
         /\ Current # 0 /\ CurrentNext = Current
         /\ \E j \in 1..Len(conversations[Current].messages) : \E updates \in UpdateArgs :
              /\ conversations[Current].messages[j].id = lastCall'.arg
              /\ conversations'[Current].messages[j] =
                   Merge(conversations[Current].messages[j], updates)
    /\ lastCall'.op = "deleteConversation" =>
         /\ lastCall'.arg \notin Ids(conversations')
         /\ Len(conversations') =
              Cardinality({i \in 1..Len(conversations) : conversations[i].id # lastCall'.arg})
    /\ quotaExceeded => storage' = storage
    /\ ~quotaExceeded => PersistsMemory(storage', conversations')

C14_WriteFailureNonFatal == [][C14_StepWrite]_vars

\* two messages were added over the quota: memory holds them, the persisted
\* conversation still has none
C14_Witness ==
  /\ quotaExceeded
  /\ lastCall.op = "addMessage"
  /\ lastCall.wrote
  /\ lastCall.error = ""
  /\ Current # 0
  /\ Len(conversations[Current].messages) = 2
  /\ storage.has
  /\ Len(storage.value) = 1
  /\ Len(storage.value[1].messages) = 0

\* C15: constructing the manager never throws; when the key is absent, or its
\* text is empty or does not parse, or the parsed value is not an array, or a
\* conversation in it has no messages array, the list is empty and there is
\* no current conversation; the list is never loaded in part.
RevivalFails(store) ==
  \/ ~store.has
  \/ store.text # "array"
  \/ \E i \in 1..Len(store.value) : "messages" \notin DOMAIN store.value[i]

C15_LoadDegradesToEmpty ==
  lastCall.op = "constructor" =>
    /\ lastCall.error = ""
    /\ currentConversationId = Null
    /\ RevivalFails(storage) => Len(conversations) = 0
    /\ Len(conversations) \in {0, Len(storage.value)}

\* the second of two stored conversations has no messages array
C15_Witness ==
  /\ lastCall.op = "constructor"
  /\ storage.text = "array"
  /\ Len(storage.value) = 2
  /\ "messages" \in DOMAIN storage.value[1]
  /\ "messages" \notin DOMAIN storage.value[2]
  /\ conversations = <<>>

\* C15 as stated: parsed data of any wrong shape gives an empty list
WellShaped(store) ==
  /\ store.has
  /\ store.text = "array"
  /\ \A i \in 1..Len(store.value) :
       {"id", "title", "messages", "createdAt", "updatedAt"} \subseteq DOMAIN store.value[i]

C15_WrongShapeLoadsEmpty ==
  lastCall.op = "constructor" =>
    /\ lastCall.error = ""
    /\ currentConversationId = Null
    /\ ~WellShaped(storage) => Len(conversations) = 0

\* C16: no failure path of the audio pipeline ends in a rejected promise:
\* whatever processAudio, generateAIResponse and the speech synthesis do, and
\* whether or not there is a current conversation, the promise of
\* handleAudioProcessing / handleAudioFile resolves, and isProcessing and
\* isAITyping are false once it has settled.
C16_NoUnhandledRejection ==
  pipeline.pc = "idle" =>
    /\ pipeline.settled # "rejected"
    /\ ~isProcessing
    /\ ~isAITyping

\* C17: once the run that stored an AI message with isTyping = true is over,
\* no message of the conversation store or of the persisted list still has
\* isTyping = true, whatever the user selected, created or deleted during the
\* typing delay.
StillTyping(convs) ==
  \E i \in 1..Len(convs) : \E j \in 1..Len(convs[i].messages) :
    convs[i].messages[j].isTyping = "true"

C17_TypingFlagCleared ==
  pipeline.pc = "idle" =>
    /\ ~StillTyping(conversations)
    /\ ~StillTyping(loadConversations(storage))

\* C18: a conversation with a user message is titled by the first six words
\* of its first user message, also when AI messages came before it; a
\* conversation without a user message keeps the title given at creation.
UserMessages(conversation) ==
  SelectSeq(conversation.messages, LAMBDA m : m.type = "user")

C18_TitleFromFirstUserMessage ==
  \A i \in 1..Len(conversations) :
    conversations[i].title =
      IF UserMessages(conversations[i]) # <<>>
      THEN generateTitle(UserMessages(conversations[i])[1].content)
      ELSE <<"Conversation ">> \o toLocaleDateString(conversations[i].createdAt)

\* C19: setCurrentConversation with any id, listed or not, sets the pointer
\* to that id and leaves the conversation list and the persisted value as
\* they were; a manager constructed from the persisted value has no current
\* conversation, whatever the pointer was.
C19_StepSetCurrent ==
  /\ lastCall'.op = "setCurrentConversation" =>
       /\ currentConversationId' = lastCall'.arg
       /\ conversations' = conversations
       /\ storage' = storage
  /\ lastCall'.op = "constructor" =>
       /\ currentConversationId' = Null
       /\ CurrentNext = 0
       /\ conversations' = loadConversations(storage)
       /\ storage' = storage

C19_PointerOnly == [][C19_StepSetCurrent]_vars

\* the pointer was switched to an id that is not in the list while
\* conversations are persisted
C19_Witness ==
  /\ lastCall.op = "setCurrentConversation"
  /\ lastCall.arg = UnknownId
  /\ currentConversationId = UnknownId
  /\ storage.has
  /\ Len(loadConversations(storage)) >= 2

\* C20: generateAIResponse resolves whatever the completion call does; when
\* the call fails the reply is the canned text of the sentiment class
\* (positive, negative, neutral), and the neutral text for any other
\* sentiment.
C20_NeverFails ==
  lastCall.op = "generateAIResponse" =>
    /\ lastCall.error = ""
    /\ returned.completion.kind = "rejects" =>
         returned.response.content =
           CASE returned.context.sentiment = "positive" -> fallbackResponses.positive
             [] returned.context.sentiment = "negative" -> fallbackResponses.negative
             [] OTHER -> fallbackResponses.neutral

\* C21: destroy() stops the periodic timer, so that no timer-triggered flush
\* happens afterwards, and the flush it starts carries every metric that was
\* queued at the call, in order, leaving the queue empty.
C21_StepDestroy ==
  /\ lastCall'.op = "destroy" =>
       /\ timer' = FALSE
       /\ metricsQueue' = <<>>
       /\ metricsQueue # <<>> =>
            /\ Len(requests') = Len(requests) + 1
            /\ requests'[Len(requests')].metricsToSend = metricsQueue
  /\ timer' => timer
  /\ lastCall'.op = "timer" => timer

C21_DestroySendsRemaining == [][C21_StepDestroy]_vars

\* C22: once stopBreathingExercise has run no timeout of the exercise fires,
\* so breathingPhase stays as it is until startBreathingExercise is called;
\* while the exercise is not stopped a phase timeout is always pending and
\* the phases follow inhale -> hold -> exhale -> inhale.
NextPhase(phase) ==
  CASE phase = "inhale" -> "hold"
    [] phase = "hold" -> "exhale"
    [] OTHER -> "inhale"

C22_StepBreathing ==
  /\ (~breathing.isBreathingActive /\ lastCall'.op # "startBreathingExercise") =>
       breathing'.breathingPhase = breathing.breathingPhase
  /\ breathing.isBreathingActive => breathing.timeouts # <<>>
  /\ (breathing.isBreathingActive /\ lastCall'.op = "timeout") =>
       breathing'.breathingPhase = NextPhase(breathing.breathingPhase)

C22_TimersClearedOnStop == [][C22_StepBreathing]_vars

\* C23: at most one recording-duration interval is active at any moment, and
\* none is active after handleStopRecording has run or after the component
\* was torn down.
C23_NoIntervalLeak ==
  /\ Cardinality(recorder.intervals) <= 1
  /\ lastCall.op = "handleStopRecording" => recorder.intervals = {}
  /\ ~recorder.mounted => recorder.intervals = {}

\* C24: exportConversation with the id of a listed conversation returns the
\* title, createdAt and one entry per message in list order; an entry carries
\* type, content, timestamp and, where the message has them, the primary
\* emotion label and the sentiment label, and nothing else: no audioUrl, no
\* isTyping, no id and no confidence.  With an id that is not listed it
\* returns the empty string.  The store is as it was in both cases.
ExportedEntry(entry, msg) ==
  /\ DOMAIN entry \subseteq {"type", "content", "timestamp", "emotions", "sentiment"}
  /\ entry.type = msg.type
  /\ entry.content = msg.content
  /\ newDate(entry.timestamp) = msg.timestamp
  /\ IF CarriesEmotion(msg)
     THEN "emotions" \in DOMAIN entry /\ entry.emotions = msg.processingResult.primary_emotion
     ELSE "emotions" \notin DOMAIN entry
  /\ IF CarriesSentiment(msg)
     THEN "sentiment" \in DOMAIN entry /\ entry.sentiment = msg.processingResult.sentiment
     ELSE "sentiment" \notin DOMAIN entry

C24_StepExport ==
  lastCall'.op = "exportConversation" =>
    /\ conversations' = conversations
    /\ currentConversationId' = currentConversationId
    /\ storage' = storage
    /\ IF lastCall'.arg \in Ids(conversations)
       THEN \E i \in 1..Len(conversations) :
              /\ conversations[i].id = lastCall'.arg
              /\ Len(returned') = 1
              /\ DOMAIN returned'[1] = {"title", "createdAt", "messages"}
              /\ returned'[1].title = conversations[i].title
              /\ newDate(returned'[1].createdAt) = conversations[i].createdAt
              /\ Len(returned'[1].messages) = Len(conversations[i].messages)
              /\ \A j \in 1..Len(conversations[i].messages) :
                   ExportedEntry(returned'[1].messages[j], conversations[i].messages[j])
       ELSE returned' = <<>>

C24_ExportDropsAudioAndScores == [][C24_StepExport]_vars

\* a conversation was exported whose first message has an audio reference
\* and a confidence and whose second message is an AI message still typing
C24_Witness ==
  /\ lastCall.op = "exportConversation"
  /\ Len(returned) = 1
  /\ Len(returned[1].messages) = 2
  /\ \E i \in 1..Len(conversations) :
       /\ conversations[i].id = lastCall.arg
       /\ Len(conversations[i].messages) = 2
       /\ conversations[i].messages[1].audioUrl # Undefined
       /\ conversations[i].messages[1].processingResult.sentiment_confidence > 0
       /\ conversations[i].messages[2].isTyping = "true"
  /\ DOMAIN returned[1].messages[2] = {"type", "content", "timestamp"}

\* C25: while every write succeeds, between any two operations the value
\* stored under the key deserializes to exactly the conversation list in
\* memory, its emotional summaries included, and every operation that
\* changes the list has written it.
C25_PersistedTracksMemory ==
  /\ loadConversations(storage) = conversations
  /\ storage.has =>
       /\ Len(storage.value) = Len(conversations)
       /\ \A i \in 1..Len(conversations) :
            Read(storage.value[i], "emotionalSummary") = conversations[i].emotionalSummary
  /\ lastCall.wrote => storage.has /\ lastCall.error = ""
  /\ conversations # <<>> => storage.has

\* a message of a conversation with a summary was just updated and written
C25_Witness ==
  /\ lastCall.op = "updateMessage"
  /\ lastCall.wrote
  /\ storage.has
  /\ Current # 0
  /\ conversations[Current].emotionalSummary.present
  /\ conversations[Current].messages[1].isTyping = "false"

\* C26: every conversation has updatedAt >= createdAt and updatedAt >= the
\* timestamp of each of its messages; updatedAt of a conversation never
\* decreases; every addMessage and every updateMessage that finds its message
\* sets updatedAt of the current conversation to the time of the call, and no
\* other operation changes an updatedAt.
UpdatedAtCoversAll(conversation) ==
  /\ conversation.updatedAt >= conversation.createdAt
  /\ \A j \in 1..Len(conversation.messages) :
       conversation.updatedAt >= conversation.messages[j].timestamp

UpdatedAtOf(convs, id) == convs[CHOOSE i \in 1..Len(convs) : convs[i].id = id].updatedAt

C26_StepUpdatedAt ==
  /\ \A i \in 1..Len(conversations') : UpdatedAtCoversAll(conversations'[i])
  /\ \A id \in Ids(conversations) \cap Ids(conversations') :
       /\ UpdatedAtOf(conversations', id) >= UpdatedAtOf(conversations, id)
       /\ UpdatedAtOf(conversations', id) # UpdatedAtOf(conversations, id) =>
            /\ lastCall'.op \in {"addMessage", "updateMessage"}
            /\ id = currentConversationId
  /\ (lastCall'.op \in {"addMessage", "updateMessage"} /\ lastCall'.wrote) =>
       /\ CurrentNext # 0
       /\ conversations'[CurrentNext].updatedAt = now'

C26_UpdatedAtRefreshed == [][C26_StepUpdatedAt]_vars

\* C27: between any two events (an addMetric call, a timer-triggered flush,
\* the end of a flush that succeeded or failed), with any number of flushes
\* in flight, the queue holds at most RequeueLimit + batchSize - 1 = 109
\* metrics, and no flush carries more than batchSize metrics.
C27_QueueBounded ==
  /\ Len(metricsQueue) <= RequeueLimit + batchSize - 1
  /\ \A k \in 1..Len(requests) : Len(requests[k].metricsToSend) <= batchSize

\* two timer-triggered flushes have failed, the second while 99 metrics were
\* queued: its ten metrics are back and the queue holds 109
C27_Witness ==
  /\ lastCall.op = "flushMetrics"
  /\ returned.outcome # "ok"
  /\ Len(returned.metricsToSend) = batchSize
  /\ Len(metricsQueue) = RequeueLimit + batchSize - 1
  /\ budget = MaxMetricCalls - 2
  /\ requests = <<>>

\* C28: the body of every request carries one entry for each metric that its
\* flush took from the queue, also when two of them have the same name and
\* the same dimension values.
C28_FlushTransmitsAll ==
  \A k \in 1..Len(requests) :
    Len(requests[k].body.metrics) = Len(requests[k].metricsToSend)

\* C29: the AI message that the pipeline appends for a submission, the reply
\* or the fallback, goes to the conversation that holds the submission's
\* user message, whatever the user selected, created or deleted while the
\* pipeline was waiting.
MessageIds(conversation) ==
  {conversation.messages[j].id : j \in 1..Len(conversation.messages)}

AllMessageIds(convs) == UNION {MessageIds(convs[i]) : i \in 1..Len(convs)}

C29_StepReply ==
  pipeline.userMessage # Null =>
    \A i \in 1..Len(conversations') : \A j \in 1..Len(conversations'[i].messages) :
      (/\ conversations'[i].messages[j].id \notin AllMessageIds(conversations)
       /\ conversations'[i].messages[j].type = "ai") =>
        pipeline.userMessage \in MessageIds(conversations'[i])

C29_ReplyInSameConversation == [][C29_StepReply]_vars

\* C30: for a submission whose analysis succeeded the pipeline appends exactly
\* one AI message, the generated reply or the fallback and never both,
\* whatever reply generation, the typing delay and the speech synthesis do.
AddedAiMessages ==
  {id \in AllMessageIds(conversations') \ AllMessageIds(conversations) :
     \E i \in 1..Len(conversations') : \E j \in 1..Len(conversations'[i].messages) :
       /\ conversations'[i].messages[j].id = id
       /\ conversations'[i].messages[j].type = "ai"}

C30_StepOneReply ==
  pipeline.userMessage # Null =>
    /\ pipeline.aiMessage # Null => AddedAiMessages = {}
    /\ (pipeline.aiMessage = Null /\ lastCall'.op = "generateAIResponse") =>
         Cardinality(AddedAiMessages) = 1

C30_OneAiMessagePerSubmission == [][C30_StepOneReply]_vars

====
